---- MODULE Spec2Model ----
(***************************************************************************)
(* State-machine model of the real-time messaging gateway of L4_BACKEND:   *)
(* the challenge/response handshake of lib/websocketAuth.js, the token     *)
(* validation of the main endpoint and the connection registry of the      *)
(* server (wss.on('connection'), setupUserConnection, ws.on('close')).     *)
(*                                                                         *)
(* One action is one macrotask of the Node.js event loop: a socket event,  *)
(* a timer callback, or the continuation of an await on the database.      *)
(* Code that runs between two awaits is atomic. Time is in milliseconds.   *)
(***************************************************************************)
EXTENDS Integers, Sequences, FiniteSets, TLC

\* ------------------------------------------------------------------ bounds
MaxEvents == 3
    \* client-side events of one behaviour: connection attempts, frames sent
    \* during the handshake, and closes started by the peer
MaxLegacyEvents == 4
    \* client-side events of one behaviour of the session server: a login needs
    \* two events and a connection with the session it issued a third
MaxValidations == 5
    \* calls of the validator and advances of its clock in one behaviour of the
    \* validator alone: a validation, the horizon passing, a second credential
    \* whose validation prunes, and the first credential again
MaxBroadcasts == 1
    \* calls of broadcastToChannel in one behaviour
MaxStamp == 2
    \* last timestamp of a message, a read receipt or a presence update (0 is the epoch)
MaxRows == 2
MaxClock == 4
MaxCacheTime == 2
MaxBeatTime == 330000
    \* last reading of Date.now(), in ms, by the heartbeat monitor and the idle timers
    \* last reading of Date.now(), in seconds, by the cache
    \* last reading of Date.now() by the message and notification handlers
    \* rows of one table the notification service reads in one call
MaxTime == 12000
    \* last instant of the modelled clock: past the authentication timeout and the
    \* grace delay, before the first heartbeat (30 s) and the idle timeout (5 min)

\* ------------------------------------------------------- program constants
authTimeout == 10000
    \* this.authTimeout
GraceDelay == 1000
    \* delay of the close timer of rejectAuthentication
heartbeatInterval == 30000
connectionTimeout == 60000
firstIdleTimeout == 300000
sessionIdleTimeout == 120000
PruneHorizon == 300000
    \* 5 * 60 * 1000: age after which a consumed nonce is dropped
TestExpiry == 3600000
    \* expiresIn: '1h' of the credentials the clients of the repository sign

\* ------------------------------------------------------------------ inputs
Conns == 1..MaxEvents
Wallets == {"U1", "U2", "U3"}
    \* U3 holds no credential: an identity that stays offline
None == 0
    \* no connection (Map.get(...) === undefined)
NoUser == "none"
Off == -1
    \* a timer that is not armed / a nonce that is not in a used-token map

\* Credentials a client may present: signed with the server secret or not,
\* the wallet address and the nonce they embed, and their expiry instant.
T1 == [signed |-> TRUE, walletAddress |-> "U1", nonce |-> "n1", exp |-> PruneHorizon]
T2 == [signed |-> TRUE, walletAddress |-> "U1", nonce |-> "n2", exp |-> PruneHorizon]
T3 == [signed |-> TRUE, walletAddress |-> "U2", nonce |-> "n3", exp |-> authTimeout]
TForged == [signed |-> FALSE, walletAddress |-> "U1", nonce |-> "n4", exp |-> PruneHorizon]
\* Credentials valid for one hour, as the clients of the repository sign them.
\* TLong carries a nonce claim; jwt.sign({ walletAddress }, ...) puts none in the
\* other two, so decoded.nonce is undefined for each of them.
TLong == [signed |-> TRUE, walletAddress |-> "U1", nonce |-> "n5", exp |-> TestExpiry]
TPlainU1 == [signed |-> TRUE, walletAddress |-> "U1", nonce |-> "undefined", exp |-> TestExpiry]
TPlainU2 == [signed |-> TRUE, walletAddress |-> "U2", nonce |-> "undefined", exp |-> TestExpiry]
Tokens == {T1, T2, T3, TForged, TLong, TPlainU1, TPlainU2}
Nonces == {t.nonce : t \in Tokens}
NoToken == [signed |-> FALSE, walletAddress |-> NoUser, nonce |-> "", exp |-> 0]
    \* a missing jwtToken field / a missing ?token= parameter

\* Tokens presented in the URL of the main endpoint (?token=), or none
MainTokens == {T2, T3, NoToken}

\* AUTH_LOGIN payloads {walletAddress, jwtToken}
LoginPayloads ==
    { [walletAddress |-> "U1", jwtToken |-> T1],
      [walletAddress |-> "U2", jwtToken |-> T3],
      [walletAddress |-> "U2", jwtToken |-> T1],
      [walletAddress |-> "U1", jwtToken |-> TForged] }

\* Frames a client may send while the handshake listener is attached.
ClientEvents ==
    { [type |-> "AUTH_LOGIN", payload |-> p] : p \in LoginPayloads }
        \cup { [type |-> "PING", payload |-> [walletAddress |-> NoUser, jwtToken |-> NoToken]] }

\* No call of broadcastToChannel is suspended.
NoBroadcast == [active |-> FALSE, exclude |-> NoUser, members |-> {}]

\* No call of broadcastToChannel has finished.
NoReport ==
    [calls |-> 0, read |-> FALSE, members |-> {}, exclude |-> NoUser, open |-> {},
     attempted |-> {}, delivered |-> {}, logged |-> << >>, returned |-> << >>]

\* calculateChannelUnreadCount was not called.
\* The keys notificationService reads and writes for one user and the channel:
\* notification:count:total:U, notification:count:all:U and
\* notification:count:channel:U:C.
CountKinds == {"total", "all", "channel"}
CountKeys == CountKinds \X {"U1", "U2", "U3"}

\* The keys of the channel lists: user:U:channels and channels:public. A list
\* is the set of the ids of its channels; Miss is the null of a key that is
\* not cached.
ListUsers == {"U1", "U2"}
PublicKey == <<"channels", "public">>
ListKeys == {<<"user", u>> : u \in ListUsers} \cup {PublicKey}
Miss == {"<null>"}
NoList == [op |-> "none", userId |-> "none", valid |-> FALSE, channels |-> Miss]

\* Keys and values of the cache as a key-value store. The values are what the
\* callers store: JSON strings, count strings and arrays, none of them falsy.
CacheKeys == {"k1", "k2"}
CacheValues == {"a", "b"}
TTLs == {1}
Null == "<null>"
NoEntry == [value |-> Null, expiry |-> 0]
NoCall == [op |-> "none", keys |-> << >>, mode |-> "none", returned |-> << >>]

\* The two servers that arm a connectionTimeout timer for a connection.
Servers == {"first", "session"}
NoConnection == [state |-> "none", lastHeartbeat |-> 0, lastActivity |-> 0, reason |-> ""]
NoTimer == [state |-> "none", deadline |-> Off, lastInbound |-> 0, reason |-> ""]

NoEvent == [type |-> "none", userId |-> "none", member |-> FALSE]

NoCalc ==
    [userId |-> NoUser, channelId |-> "", member |-> FALSE, db |-> "ok",
     messages |-> {}, receipts |-> {}, lastSeen |-> Off, count |-> 0]

\* The process before server.listen, and a transport that does not exist yet.
HaltServers == {"first", "session", "gateway"}
HaltConns == {1, 2}
NoProcess == [server |-> "none", listening |-> FALSE, fanout |-> "none",
              released |-> {}, signalled |-> FALSE, exited |-> FALSE]
NoSocket == [state |-> "none", registered |-> FALSE, reason |-> ""]

\* No frame has been decoded yet.
NoTrip == [op |-> "none", sent |-> << >>, wire |-> << >>, received |-> << >>]

VARIABLES
    now,                \* Date.now()
    readyState,         \* ws.readyState of each transport
    serverClose,        \* <<code, reason>> of the ws.close() the server called
    pc,                 \* position of wss.on('connection') for each transport
    pendingConnections, \* websocketAuth.pendingConnections (keys)
    startTime,          \* pendingConnections[c].startTime
    authenticated,      \* pendingConnections[c].authenticated
    authTimer,          \* deadline of the setTimeout of handleConnection
    graceTimers,        \* deadlines of the setTimeouts of rejectAuthentication
    logins,             \* handleAuthLogin calls suspended on prisma
    mainLogin,          \* wallet a main-endpoint handler suspended on prisma looks up
    usedTokens,         \* websocketAuth.usedTokens: nonce -> timestamp
    globalUsedTokens,   \* global.usedTokens: nonce -> timestamp
    users,              \* wallet addresses that have a User row
    connections,        \* memoryStore.connections: userId -> ws
    userId,             \* the userId each connection handler closed over
    sent,               \* frames the server wrote to each transport
    clientEvents,       \* client-side events so far
    validations,        \* history: successful nonce validations
    loginSeen,          \* history: the client submitted AUTH_LOGIN
    replacedBy,         \* history: the connection that evicted this one
    sessions,           \* prisma.session rows, with the login that created each
    legacyLogins,       \* AUTH_LOGIN handlers of the session server suspended on prisma
    attempts,           \* history: the calls of validateAuthPayload and their results
    thrown,             \* history: handler invocations that threw, per connection
    channelMembers,     \* prisma.channelMember: the userIds of the rows of the channel
    broadcast,          \* the call of broadcastToChannel suspended on prisma, if any
    reports,            \* history: what the last finished call of broadcastToChannel did,
                        \* what it logged and what it returned (<< >> is undefined)
    unreadCalc,         \* history: the last call of calculateChannelUnreadCount
    clock,              \* Date.now() as the message handlers read it
    dbMessages,         \* prisma.message: the rows of the channel
    dbReceipts,         \* prisma.readReceipt: the rows for messages of the channel
    userLastSeen,       \* prisma.user.lastSeen of each user (Off is null)
    online,             \* users whose entry of connections is an OPEN socket
    countCache,         \* the notification:count:* keys of the cache (Off is a miss)
    pushed,             \* frames the last handler wrote, with the user of the socket
    lastEvent,          \* history: the event the last handler was called for
    isConnected,        \* RedisCache.isConnected
    redisStore,         \* the channel-list keys held by the external store
    memoryCache,        \* RedisCache.memoryCache: the channel-list keys of the Map
    lastList,           \* history: the last validation or fetch and what it sent
    cacheTime,          \* Date.now() as RedisCache reads it, in seconds
    external,           \* the entries of the external store, each with its expiry
    memory,             \* RedisCache.memoryCache with memoryCacheExpiry
    lastSet,            \* history: the last set of each key by the Map and its expiry
    lastCall,           \* history: the last cache operation and what it returned
    beatTime,           \* Date.now() as the heartbeat monitor and the idle timers read it
    nextBeat,           \* when the setInterval of Gateway.startHeartbeat fires next
    gateway,            \* the connection record of Gateway.connections, and its end
    idle,               \* per server: the connection, its connectionTimeout timer
                        \* and (history) its last inbound message
    handlers,           \* the ws.on('message') invocations of one connection, in arrival order,
                        \* each with the number of its awaits that have resolved
    effects,            \* history: the writes and broadcasts, each with the invocation it belongs to
    presence,           \* prisma.user.status of each identity
    proc,               \* the process: which server it runs, whether it listens, the broadcast in flight,
                        \* the connections it released, the signal and the exit
    sockets,            \* the transports of the process: state, whether the registry holds them, close reason
    haltLog,            \* history: the steps of the shutdown in the order they were performed
    codec,              \* history: the last envelope encoded or frame received, and what the inbound
                        \* decoder made of it
    dmMembers,          \* prisma.channelMember: the userIds of the rows of a channel of type 'dm'
    dmCalls,            \* the handlers suspended on a query about that channel, each with its user,
                        \* its event and the query it awaits
    reactions,          \* prisma.messageReaction: the emojis of the rows of one (message, user) pair
    reactionCalls,      \* the reaction handlers of that user suspended on a query, each with its
                        \* event, its emoji, the query it awaits and the row findFirst returned
    roomMembers,        \* prisma.roomMember: the users with a row for the room
    roomInvite,         \* prisma.roomInvite: the isUsed and usedBy fields of the invite
    inviteCalls,        \* the room handlers suspended on a query, each with its user, its event,
                        \* the invite code of its payload and the query it awaits
    viaInvite           \* the users whose roomMember row was created by a handler that had
                        \* found the invite valid

vars == << now, readyState, serverClose, pc, pendingConnections, startTime,
           authenticated, authTimer, graceTimers, logins, mainLogin, usedTokens,
           globalUsedTokens, users, connections, userId, sent, clientEvents,
           validations, loginSeen, replacedBy, sessions, legacyLogins, attempts, thrown,
           channelMembers, broadcast, reports, unreadCalc,
           clock, dbMessages, dbReceipts, userLastSeen, online, countCache,
           pushed, lastEvent, isConnected, redisStore, memoryCache, lastList,
           cacheTime, external, memory, lastSet, lastCall,
           beatTime, nextBeat, gateway, idle,
           handlers, effects, presence, proc, sockets, haltLog, codec, dmMembers,
           dmCalls, reactions, reactionCalls, roomMembers, roomInvite, inviteCalls,
           viaInvite >>

\* State of the session server, and of the components it leaves alone.
legacyVars == << sessions, legacyLogins >>
extVars == << attempts >>
dispVars == << thrown >>
bcVars == << channelMembers, broadcast, reports >>

\* State of the notification service, the cache and the heartbeat monitor.
calcVars == << unreadCalc >>
notifyVars == << clock, dbMessages, dbReceipts, userLastSeen, online, countCache,
                pushed, lastEvent >>
listVars == << isConnected, redisStore, memoryCache, lastList >>
storeVars == << cacheTime, external, memory, lastSet, lastCall >>
beatVars == << beatTime, nextBeat, gateway, idle >>

\* State of the inbound handlers of one connection.
orderVars == << handlers, effects >>
\* State of the presence column of the user table.
presenceVars == << presence >>
\* State of a server process around a termination signal.
haltVars == << proc, sockets, haltLog >>
\* State of the codec.
codecVars == << codec >>
\* State of one direct-message channel.
dmVars == << dmMembers, dmCalls >>
\* State of the reactions of one user on one message.
reactionVars == << reactions, reactionCalls >>
\* State of one private room and its one invite.
inviteVars == << roomMembers, roomInvite, inviteCalls, viaInvite >>
finalVars == << orderVars, presenceVars, haltVars, codecVars, dmVars, reactionVars, inviteVars >>

laterVars == << calcVars, notifyVars, listVars, storeVars, beatVars, finalVars >>

\* State of the other components, which the handshake and the registry leave alone.
auxVars == << legacyVars, extVars, dispVars, bcVars, laterVars >>

hsVars == << pendingConnections, startTime, authenticated, authTimer, graceTimers,
             logins, usedTokens, loginSeen >>
regVars == << connections, userId, replacedBy >>

Init ==
    /\ now = 0
    /\ readyState = [c \in Conns |-> "NONE"]
    /\ serverClose = [c \in Conns |-> << 0, "" >>]
    /\ pc = [c \in Conns |-> "none"]
    /\ pendingConnections = {}
    /\ startTime = [c \in Conns |-> 0]
    /\ authenticated = [c \in Conns |-> FALSE]
    /\ authTimer = [c \in Conns |-> Off]
    /\ graceTimers = [c \in Conns |-> {}]
    /\ logins = {}
    /\ mainLogin = [c \in Conns |-> NoUser]
    /\ usedTokens = [n \in Nonces |-> Off]
    /\ globalUsedTokens = [n \in Nonces |-> Off]
    /\ users = {"U1"}
    /\ connections = [u \in Wallets |-> None]
    /\ userId = [c \in Conns |-> NoUser]
    /\ sent = [c \in Conns |-> << >>]
    /\ clientEvents = 0
    /\ validations = {}
    /\ loginSeen = [c \in Conns |-> FALSE]
    /\ replacedBy = [c \in Conns |-> None]
    /\ sessions = {}
    /\ legacyLogins = {}
    /\ attempts = << >>
    /\ thrown = [c \in Conns |-> 0]
    /\ channelMembers = Wallets
    /\ broadcast = NoBroadcast
    /\ reports = NoReport
    /\ unreadCalc = NoCalc
    /\ clock = 0
    /\ dbMessages = {}
    /\ dbReceipts = {}
    /\ userLastSeen = [u \in Wallets |-> Off]
    /\ online = {}
    /\ countCache = [k \in CountKeys |-> Off]
    /\ pushed = {}
    /\ lastEvent = NoEvent
    /\ isConnected = FALSE
    /\ redisStore = [k \in ListKeys |-> Miss]
    /\ memoryCache = [k \in ListKeys |-> Miss]
    /\ lastList = NoList
    /\ cacheTime = 0
    /\ external = [k \in CacheKeys |-> NoEntry]
    /\ memory = [k \in CacheKeys |-> NoEntry]
    /\ lastSet = [k \in CacheKeys |-> NoEntry]
    /\ lastCall = NoCall
    /\ beatTime = 0
    /\ nextBeat = heartbeatInterval
    /\ gateway = NoConnection
    /\ idle = [s \in Servers |-> NoTimer]
    /\ handlers = << >>
    /\ effects = << >>
    /\ presence = [u \in Wallets |-> "offline"]
    /\ proc = NoProcess
    /\ sockets = [c \in HaltConns |-> NoSocket]
    /\ haltLog = << >>
    /\ codec = NoTrip
    /\ dmMembers = {"U1", "U2"}
    /\ dmCalls = {}
    /\ reactions = {}
    /\ reactionCalls = {}
    /\ roomMembers = {"U1"}
    /\ roomInvite = [isUsed |-> FALSE, usedBy |-> "none"]
    /\ inviteCalls = {}
    /\ viaInvite = {}

\* ------------------------------------------------------- transport (ws)
\* ws.send(frame): the frame reaches the peer only while the socket is OPEN.
Send(s, c, frame) ==
    IF readyState[c] = "OPEN" THEN [s EXCEPT ![c] = Append(@, frame)] ELSE s

\* ------------------------------------------------------------ credentials
\* jwt.verify(token, secret): signature and expiry.
jwtVerify(token) ==
    token.signed /\ now < token.exp

\* The pruning loop that follows each recording of a nonce.
pruneUsed(used) ==
    [n \in Nonces |-> IF used[n] # Off /\ used[n] < now - PruneHorizon THEN Off ELSE used[n]]

\* validateJWTToken: the result and the used-token map it leaves behind.
validateJWTToken(token) ==
    IF ~jwtVerify(token)
    THEN [isValid |-> FALSE, walletAddress |-> NoUser, used |-> usedTokens]
    ELSE IF usedTokens[token.nonce] # Off
    THEN [isValid |-> FALSE, walletAddress |-> NoUser, used |-> usedTokens]
    ELSE [isValid |-> TRUE, walletAddress |-> token.walletAddress,
          used |-> pruneUsed([usedTokens EXCEPT ![token.nonce] = now])]

\* validateAuthPayload: the result, its error, and the used-token map left behind.
validateAuthPayload(payload) ==
    IF payload.walletAddress = NoUser \/ payload.jwtToken = NoToken
    THEN [isValid |-> FALSE, error |-> "Missing required authentication fields",
          walletAddress |-> NoUser, used |-> usedTokens, consumed |-> FALSE]
    ELSE LET jwtResult == validateJWTToken(payload.jwtToken) IN
         IF ~jwtResult.isValid
         THEN [isValid |-> FALSE, error |-> "Invalid JWT token",
               walletAddress |-> NoUser, used |-> jwtResult.used, consumed |-> FALSE]
         ELSE IF jwtResult.walletAddress # payload.walletAddress
         THEN [isValid |-> FALSE, error |-> "Wallet address mismatch",
               walletAddress |-> NoUser, used |-> jwtResult.used, consumed |-> TRUE]
         ELSE [isValid |-> TRUE, error |-> "",
               walletAddress |-> payload.walletAddress, used |-> jwtResult.used,
               consumed |-> TRUE]

\* ---------------------------------------------------- handshake helpers
\* rejectAuthentication: AUTH_FAILED now, cleanup and close after the grace delay.
rejectAuthentication(c, reason) ==
    IF c \notin pendingConnections
    THEN UNCHANGED << sent, graceTimers >>
    ELSE /\ sent' = Send(sent, c, << "AUTH_FAILED", reason >>)
         /\ graceTimers' = [graceTimers EXCEPT ![c] = @ \cup {now + GraceDelay}]

\* A rejectUnauthenticated that answers nothing.
rejectUnauthenticated_silent(c, reason) ==
    UNCHANGED sent

\* rejectUnauthenticated: AUTH_REQUIRED to a pending connection, nothing else.
rejectUnauthenticated(c, reason) ==
    IF c \notin pendingConnections
    THEN UNCHANGED sent
    ELSE sent' = Send(sent, c, << "AUTH_REQUIRED", reason >>)

\* A handleAuthTimeout that lets the deadline pass.
handleAuthTimeout_ignored(c) ==
    UNCHANGED << sent, graceTimers >>

\* handleAuthTimeout
handleAuthTimeout(c) ==
    IF c \notin pendingConnections \/ authenticated[c]
    THEN UNCHANGED << sent, graceTimers >>
    ELSE rejectAuthentication(c, "Authentication timeout")

\* A cleanupConnection that keeps the pending entry.
cleanupConnection_keep(c) ==
    UNCHANGED pendingConnections

\* cleanupConnection
cleanupConnection(c) ==
    pendingConnections' = pendingConnections \ {c}

\* ------------------------------------------------------------- registry
\* A setupUserConnection that installs ws without closing the existing connection.
setupUserConnection_keepsExisting(c, u) ==
    /\ UNCHANGED << readyState, serverClose, replacedBy >>
    /\ connections' = [connections EXCEPT ![u] = c]
    /\ userId' = [userId EXCEPT ![c] = u]
    /\ pc' = [pc EXCEPT ![c] = "setup"]

\* setupUserConnection up to its await: evict the identity's connection, install ws.
setupUserConnection(c, u) ==
    LET existingConnection == connections[u] IN
    /\ IF existingConnection # None /\ readyState[existingConnection] = "OPEN"
       THEN /\ readyState' = [readyState EXCEPT ![existingConnection] = "CLOSING"]
            /\ serverClose' = [serverClose EXCEPT
                                 ![existingConnection] = << 1000, "Replaced by new connection" >>]
            /\ replacedBy' = [replacedBy EXCEPT ![existingConnection] = c]
       ELSE UNCHANGED << readyState, serverClose, replacedBy >>
    /\ connections' = [connections EXCEPT ![u] = c]
    /\ userId' = [userId EXCEPT ![c] = u]
    /\ pc' = [pc EXCEPT ![c] = "setup"]

\* The close listener of the server: connections.delete(userId).
onCloseRegistry(c) ==
    IF pc[c] = "ready" /\ userId[c] # NoUser
    THEN connections' = [connections EXCEPT ![userId[c]] = None]
    ELSE UNCHANGED connections

\* --------------------------------------------------------------- actions
\* wss.on('connection') for the /auth endpoint: websocketAuth.handleConnection
\* stores the pending entry, arms the authentication timer, sends the challenge.
ConnectAuth(c) ==
    /\ clientEvents < MaxEvents
    /\ readyState[c] = "NONE"
    /\ \A d \in Conns : d < c => readyState[d] # "NONE"
    /\ now + authTimeout + GraceDelay <= MaxTime
    /\ readyState' = [readyState EXCEPT ![c] = "OPEN"]
    /\ pc' = [pc EXCEPT ![c] = "handshake"]
    /\ pendingConnections' = pendingConnections \cup {c}
    /\ startTime' = [startTime EXCEPT ![c] = now]
    /\ authenticated' = [authenticated EXCEPT ![c] = FALSE]
    /\ authTimer' = [authTimer EXCEPT ![c] = now + authTimeout]
    /\ sent' = [sent EXCEPT ![c] = Append(@, << "AUTH_CHALLENGE", "" >>)]
    /\ clientEvents' = clientEvents + 1
    /\ UNCHANGED << now, serverClose, graceTimers, logins, mainLogin, usedTokens,
                    globalUsedTokens, users, validations, loginSeen >>
    /\ UNCHANGED regVars
    /\ UNCHANGED auxVars

\* wss.on('connection') for the main endpoint: the token of the URL is verified,
\* checked against global.usedTokens and recorded there; then prisma.user.findFirst.
ConnectMain(c, token) ==
    /\ clientEvents < MaxEvents
    /\ readyState[c] = "NONE"
    /\ \A d \in Conns : d < c => readyState[d] # "NONE"
    /\ IF token = NoToken
       THEN /\ readyState' = [readyState EXCEPT ![c] = "CLOSING"]
            /\ serverClose' = [serverClose EXCEPT ![c] = << 1008, "Authentication required" >>]
            /\ pc' = [pc EXCEPT ![c] = "done"]
            /\ UNCHANGED << globalUsedTokens, mainLogin, validations >>
       ELSE IF ~jwtVerify(token)
       THEN /\ readyState' = [readyState EXCEPT ![c] = "CLOSING"]
            /\ serverClose' = [serverClose EXCEPT ![c] = << 1008, "Invalid authentication token" >>]
            /\ pc' = [pc EXCEPT ![c] = "done"]
            /\ UNCHANGED << globalUsedTokens, mainLogin, validations >>
       ELSE IF globalUsedTokens[token.nonce] # Off
       THEN /\ readyState' = [readyState EXCEPT ![c] = "CLOSING"]
            /\ serverClose' = [serverClose EXCEPT ![c] = << 1008, "Token already used" >>]
            /\ pc' = [pc EXCEPT ![c] = "done"]
            /\ UNCHANGED << globalUsedTokens, mainLogin, validations >>
       ELSE /\ readyState' = [readyState EXCEPT ![c] = "OPEN"]
            /\ globalUsedTokens' = pruneUsed([globalUsedTokens EXCEPT ![token.nonce] = now])
            /\ validations' = validations \cup
                   {[nonce |-> token.nonce, time |-> now, endpoint |-> "main"]}
            /\ mainLogin' = [mainLogin EXCEPT ![c] = token.walletAddress]
            /\ pc' = [pc EXCEPT ![c] = "mainFind"]
            /\ UNCHANGED serverClose
    /\ clientEvents' = clientEvents + 1
    /\ UNCHANGED << now, sent, users >>
    /\ UNCHANGED hsVars
    /\ UNCHANGED regVars
    /\ UNCHANGED auxVars

\* A ws.close() of the connection handler of the main endpoint.
mainReject(c, reason) ==
    /\ IF readyState[c] = "OPEN"
       THEN /\ readyState' = [readyState EXCEPT ![c] = "CLOSING"]
            /\ serverClose' = [serverClose EXCEPT ![c] = << 1008, reason >>]
       ELSE UNCHANGED << readyState, serverClose >>
    /\ pc' = [pc EXCEPT ![c] = "done"]
    /\ UNCHANGED regVars

\* prisma.user.findFirst returns (or throws) in the main-endpoint handler.
MainFindDone(c, dbOk) ==
    /\ pc[c] = "mainFind"
    /\ IF ~dbOk
       THEN mainReject(c, "Invalid authentication token") /\ UNCHANGED mainLogin
       ELSE IF mainLogin[c] \in users
       THEN setupUserConnection(c, mainLogin[c]) /\ UNCHANGED mainLogin
       ELSE /\ pc' = [pc EXCEPT ![c] = "mainCreate"]
            /\ UNCHANGED << readyState, serverClose, mainLogin >>
            /\ UNCHANGED regVars
    /\ UNCHANGED << now, sent, users, clientEvents, globalUsedTokens, validations >>
    /\ UNCHANGED hsVars
    /\ UNCHANGED auxVars

\* prisma.user.create returns (or throws: database down, or the unique wallet
\* address was inserted meanwhile) in the main-endpoint handler.
MainCreateDone(c, dbOk) ==
    /\ pc[c] = "mainCreate"
    /\ IF ~dbOk \/ mainLogin[c] \in users
       THEN mainReject(c, "Database error") /\ UNCHANGED users
       ELSE /\ users' = users \cup {mainLogin[c]}
            /\ setupUserConnection(c, mainLogin[c])
    /\ UNCHANGED << now, sent, clientEvents, globalUsedTokens, validations, mainLogin >>
    /\ UNCHANGED hsVars
    /\ UNCHANGED auxVars

\* handleAuthLogin up to its first await (the caller found the entry pending).
handleAuthLogin(c, payload) ==
    LET authResult == validateAuthPayload(payload) IN
    /\ usedTokens' = authResult.used
    /\ validations' = IF authResult.consumed
                      THEN validations \cup
                             {[nonce |-> payload.jwtToken.nonce, time |-> now, endpoint |-> "auth"]}
                      ELSE validations
    /\ IF ~authResult.isValid
       THEN rejectAuthentication(c, authResult.error) /\ UNCHANGED logins
       ELSE /\ logins' = logins \cup
                   {[conn |-> c, walletAddress |-> authResult.walletAddress, stage |-> "find"]}
            /\ UNCHANGED << sent, graceTimers >>

\* The 'message' listener websocketAuth attached to the socket, for a frame that
\* decodes. It stays attached after a successful login until the server swaps the
\* listeners, and then ignores what it receives.
AuthOnMessage(c, ev) ==
    /\ pc[c] \in {"handshake", "setup"}
    /\ readyState[c] = "OPEN"
    /\ clientEvents < MaxEvents
    /\ clientEvents' = clientEvents + 1
    /\ IF c \notin pendingConnections \/ authenticated[c]
       THEN UNCHANGED << sent, graceTimers, logins, usedTokens, validations, loginSeen >>
       ELSE IF ev.type = "AUTH_LOGIN"
       THEN /\ handleAuthLogin(c, ev.payload)
            /\ loginSeen' = [loginSeen EXCEPT ![c] = TRUE]
       ELSE /\ rejectUnauthenticated(c, "Authentication required")
            /\ UNCHANGED << graceTimers, logins, usedTokens, validations, loginSeen >>
    /\ UNCHANGED << now, readyState, serverClose, pc, pendingConnections, startTime,
                    authenticated, authTimer, mainLogin, globalUsedTokens, users >>
    /\ UNCHANGED regVars
    /\ UNCHANGED auxVars

\* A completion of handleAuthLogin that leaves the entry in pendingConnections.
loginSucceeds_keepsPending(c, u) ==
    /\ authTimer' = [authTimer EXCEPT ![c] = Off]
    /\ authenticated' = [authenticated EXCEPT ![c] = TRUE]
    /\ sent' = IF c \in pendingConnections
               THEN Send(sent, c, << "AUTH_SUCCESS", u >>)
               ELSE sent
    /\ UNCHANGED pendingConnections
    /\ IF pc[c] = "handshake"
       THEN setupUserConnection(c, u)
       ELSE UNCHANGED << readyState, serverClose, pc >> /\ UNCHANGED regVars
    /\ UNCHANGED graceTimers

\* handleAuthLogin after the user row is known: clearTimeout, mark authenticated,
\* sendAuthSuccess, delete the pending entry, return the result; the promise of
\* handleConnection resolves (if it is still unsettled) and the connection handler
\* runs on into setupUserConnection within the same macrotask.
loginSucceeds(c, u) ==
    /\ authTimer' = [authTimer EXCEPT ![c] = Off]
    /\ authenticated' = [authenticated EXCEPT ![c] = TRUE]
    /\ sent' = IF c \in pendingConnections
               THEN Send(sent, c, << "AUTH_SUCCESS", u >>)
               ELSE sent
    /\ pendingConnections' = pendingConnections \ {c}
    /\ IF pc[c] = "handshake"
       THEN setupUserConnection(c, u)
       ELSE UNCHANGED << readyState, serverClose, pc >> /\ UNCHANGED regVars
    /\ UNCHANGED graceTimers

\* The catch block of handleAuthLogin.
loginDatabaseError(c) ==
    /\ rejectAuthentication(c, "Database error during authentication")
    /\ UNCHANGED << authTimer, authenticated, pendingConnections, readyState, serverClose, pc >>
    /\ UNCHANGED regVars

\* prisma.user.findUnique returns (or throws) in handleAuthLogin.
LoginFindDone(l, dbOk) ==
    /\ l \in logins
    /\ l.stage = "find"
    /\ IF ~dbOk
       THEN loginDatabaseError(l.conn) /\ logins' = logins \ {l}
       ELSE IF l.walletAddress \in users
       THEN loginSucceeds(l.conn, l.walletAddress) /\ logins' = logins \ {l}
       ELSE /\ logins' = (logins \ {l}) \cup {[l EXCEPT !.stage = "create"]}
            /\ UNCHANGED << sent, graceTimers, authTimer, authenticated, pendingConnections,
                            readyState, serverClose, pc >>
            /\ UNCHANGED regVars
    /\ UNCHANGED << now, startTime, mainLogin, usedTokens, globalUsedTokens, users,
                    clientEvents, validations, loginSeen >>
    /\ UNCHANGED auxVars

\* prisma.user.create returns (or throws) in handleAuthLogin.
LoginCreateDone(l, dbOk) ==
    /\ l \in logins
    /\ l.stage = "create"
    /\ logins' = logins \ {l}
    /\ IF ~dbOk \/ l.walletAddress \in users
       THEN loginDatabaseError(l.conn) /\ UNCHANGED users
       ELSE /\ users' = users \cup {l.walletAddress}
            /\ loginSucceeds(l.conn, l.walletAddress)
    /\ UNCHANGED << now, startTime, mainLogin, usedTokens, globalUsedTokens,
                    clientEvents, validations, loginSeen >>
    /\ UNCHANGED auxVars

\* updateUserPresence returned in setupUserConnection: USER_STATUS_CHANGED is sent,
\* the handshake 'message' listeners are removed and the server's are attached.
SetupDone(c) ==
    /\ pc[c] = "setup"
    /\ sent' = Send(sent, c, << "USER_STATUS_CHANGED", "online" >>)
    /\ pc' = [pc EXCEPT ![c] = "ready"]
    /\ UNCHANGED << now, readyState, serverClose, mainLogin, globalUsedTokens, users,
                    clientEvents, validations >>
    /\ UNCHANGED hsVars
    /\ UNCHANGED regVars
    /\ UNCHANGED auxVars

\* The 'close' event of a transport: the peer closed, or the close the server
\* started completes. The close listener of websocketAuth cleans the pending
\* entry up and rejects the promise; the server's listener (once attached)
\* deletes the registry entry of its userId.
TransportClose(c) ==
    /\ readyState[c] \in {"OPEN", "CLOSING"}
    /\ readyState[c] = "OPEN" => clientEvents < MaxEvents
    /\ clientEvents' = IF readyState[c] = "OPEN" THEN clientEvents + 1 ELSE clientEvents
    /\ readyState' = [readyState EXCEPT ![c] = "CLOSED"]
    /\ cleanupConnection(c)
    /\ pc' = [pc EXCEPT ![c] = IF @ \in {"handshake", "ready"} THEN "done" ELSE @]
    /\ onCloseRegistry(c)
    /\ UNCHANGED << now, serverClose, startTime, authenticated, authTimer, graceTimers,
                    logins, mainLogin, usedTokens, globalUsedTokens, users, userId, sent,
                    validations, loginSeen, replacedBy >>
    /\ UNCHANGED auxVars

\* The authentication timer of handleConnection expires.
AuthTimerFire(c) ==
    /\ authTimer[c] # Off
    /\ now >= authTimer[c]
    /\ authTimer' = [authTimer EXCEPT ![c] = Off]
    /\ handleAuthTimeout(c)
    /\ UNCHANGED << now, readyState, serverClose, pc, pendingConnections, startTime,
                    authenticated, logins, mainLogin, usedTokens, globalUsedTokens, users,
                    clientEvents, validations, loginSeen >>
    /\ UNCHANGED regVars
    /\ UNCHANGED auxVars

\* The body of the close timer of rejectAuthentication.
graceExpired(c) ==
    /\ cleanupConnection(c)
    /\ IF readyState[c] = "OPEN"
       THEN /\ readyState' = [readyState EXCEPT ![c] = "CLOSING"]
            /\ serverClose' = [serverClose EXCEPT ![c] = << 1008, "Authentication failed" >>]
       ELSE UNCHANGED << readyState, serverClose >>

\* A close timer of rejectAuthentication expires.
GraceTimerFire(c, d) ==
    /\ d \in graceTimers[c]
    /\ now >= d
    /\ graceTimers' = [graceTimers EXCEPT ![c] = @ \ {d}]
    /\ graceExpired(c)
    /\ UNCHANGED << now, pc, startTime, authenticated, authTimer, logins, mainLogin,
                    usedTokens, globalUsedTokens, users, sent, clientEvents, validations,
                    loginSeen >>
    /\ UNCHANGED regVars
    /\ UNCHANGED auxVars

\* Deadlines of the armed timers.
Deadlines ==
    {authTimer[c] : c \in {x \in Conns : authTimer[x] # Off}}
        \cup UNION {graceTimers[c] : c \in Conns}

\* Time passes until the next armed timer is due. Between two such instants the
\* program reads the clock only to stamp what it stores, so the events of an
\* interval are taken at its start, in any order, ties with the timer included.
Tick ==
    /\ Deadlines # {}
    /\ \E t \in Deadlines :
          /\ \A d \in Deadlines : t <= d
          /\ t > now
          /\ t <= MaxTime
          /\ now' = t
    /\ UNCHANGED << readyState, serverClose, pc, pendingConnections, startTime,
                    authenticated, authTimer, graceTimers, logins, mainLogin, usedTokens,
                    globalUsedTokens, users, connections, userId, sent, clientEvents,
                    validations, loginSeen, replacedBy >>
    /\ UNCHANGED auxVars

Next ==
    \/ \E c \in Conns : ConnectAuth(c)
    \/ \E c \in Conns, t \in MainTokens : ConnectMain(c, t)
    \/ \E c \in Conns, dbOk \in BOOLEAN : MainFindDone(c, dbOk)
    \/ \E c \in Conns, dbOk \in BOOLEAN : MainCreateDone(c, dbOk)
    \/ \E c \in Conns, ev \in ClientEvents : AuthOnMessage(c, ev)
    \/ \E l \in logins, dbOk \in BOOLEAN : LoginFindDone(l, dbOk)
    \/ \E l \in logins, dbOk \in BOOLEAN : LoginCreateDone(l, dbOk)
    \/ \E c \in Conns : SetupDone(c)
    \/ \E c \in Conns : TransportClose(c)
    \/ \E c \in Conns : AuthTimerFire(c)
    \/ \E c \in Conns, d \in UNION {graceTimers[x] : x \in Conns} : GraceTimerFire(c, d)
    \/ Tick

Spec == Init /\ [][Next]_vars

\* ----------------------------------------- the dispatcher of the server
\* Event types a client sends once its connection is set up: the heartbeat, an
\* event whose handler calls the database, and a type the protocol does not have.
MainEventTypes == {"PING", "SEND_MESSAGE", "NOPE"}

\* handleWebSocketMessage: the frames it writes to the sender. A handler that
\* throws or rejects lands in the catch block of the dispatcher.
handleWebSocketMessage(type, throws) ==
    IF type = "PING" THEN << << "PONG", "" >> >>
    ELSE IF type = "SEND_MESSAGE"
    THEN IF throws THEN << << "ERROR", "Message processing failed" >> >> ELSE << >>
    ELSE << << "ERROR", "Unknown event type" >> >>

\* The 'message' listener the server attaches after setupUserConnection, for a
\* frame that decodes. The awaits of the handler are folded into the action.
MainOnMessage(c, type, throws) ==
    /\ pc[c] = "ready"
    /\ readyState[c] = "OPEN"
    /\ clientEvents < MaxEvents
    /\ clientEvents' = clientEvents + 1
    /\ type # "SEND_MESSAGE" => ~throws
    /\ sent' = [sent EXCEPT ![c] = @ \o handleWebSocketMessage(type, throws)]
    /\ thrown' = [thrown EXCEPT ![c] = IF throws THEN @ + 1 ELSE @]
    /\ UNCHANGED << now, readyState, serverClose, pc, mainLogin, globalUsedTokens, users,
                    validations >>
    /\ UNCHANGED hsVars
    /\ UNCHANGED regVars
    /\ UNCHANGED legacyVars
    /\ UNCHANGED extVars
    /\ UNCHANGED bcVars
    /\ UNCHANGED laterVars

NextDispatch ==
    \/ Next
    \/ \E c \in Conns, type \in MainEventTypes, throws \in BOOLEAN :
            MainOnMessage(c, type, throws)

SpecDispatch == Init /\ [][NextDispatch]_vars

\* ------------------------------------------------- the session server
\* The second server of the repository: a connection carries the token of a
\* session in its URL, or none and then asks for a session with AUTH_LOGIN.
NoPayload == [walletAddress |-> NoUser, jwtToken |-> NoToken]

\* A ?token= that names no session row.
BadSession == [walletAddress |-> NoUser, payload |-> NoPayload]

\* Frames a client of the session server may send.
LegacyEvents ==
    ClientEvents \cup
        { [type |-> t, payload |-> NoPayload] :
            t \in {"AUTH_ME", "SEND_MESSAGE", "JOIN_CHANNEL", "NOPE"} }

\* Events the message listener lets through without a userId.
LegacyPreAuth == {"AUTH_ME", "AUTH_LOGIN", "PING"}

\* Event types whose case calls a handler that may throw or reject.
LegacyHandled == {"AUTH_ME", "SEND_MESSAGE", "JOIN_CHANNEL"}

\* The checks of case AUTH_LOGIN: the token is split and its payload decoded,
\* its expiry and wallet address are compared; the signature is not verified.
legacyVerify(payload) ==
    IF payload.walletAddress = NoUser \/ payload.jwtToken = NoToken
    THEN "Missing required fields"
    ELSE IF payload.jwtToken.exp < now
    THEN "Invalid JWT token"
    ELSE IF payload.jwtToken.walletAddress # payload.walletAddress
    THEN "Invalid JWT token"
    ELSE "ok"

\* wss.on('connection') of the session server without ?token=: the listeners are
\* attached at once and the connection has no userId.
LegacyConnectAnonymous(c) ==
    /\ clientEvents < MaxLegacyEvents
    /\ readyState[c] = "NONE"
    /\ \A d \in Conns : d < c => readyState[d] # "NONE"
    /\ readyState' = [readyState EXCEPT ![c] = "OPEN"]
    /\ pc' = [pc EXCEPT ![c] = "legacy"]
    /\ clientEvents' = clientEvents + 1
    /\ UNCHANGED << now, serverClose, mainLogin, globalUsedTokens, users, sent, validations >>
    /\ UNCHANGED hsVars
    /\ UNCHANGED regVars
    /\ UNCHANGED legacyVars
    /\ UNCHANGED extVars
    /\ UNCHANGED dispVars
    /\ UNCHANGED bcVars
    /\ UNCHANGED laterVars

\* wss.on('connection') of the session server with ?token=: prisma.session.findUnique.
LegacyConnectToken(c, tok) ==
    /\ clientEvents < MaxLegacyEvents
    /\ readyState[c] = "NONE"
    /\ \A d \in Conns : d < c => readyState[d] # "NONE"
    /\ readyState' = [readyState EXCEPT ![c] = "OPEN"]
    /\ pc' = [pc EXCEPT ![c] = "legacyFind"]
    /\ mainLogin' = [mainLogin EXCEPT ![c] = tok.walletAddress]
    /\ clientEvents' = clientEvents + 1
    /\ UNCHANGED << now, serverClose, globalUsedTokens, users, sent, validations >>
    /\ UNCHANGED hsVars
    /\ UNCHANGED regVars
    /\ UNCHANGED legacyVars
    /\ UNCHANGED extVars
    /\ UNCHANGED dispVars
    /\ UNCHANGED bcVars
    /\ UNCHANGED laterVars

\* The session lookup returns: an unknown token closes the connection, a known
\* one registers it under the user of the session.
LegacySessionFound(c) ==
    /\ pc[c] = "legacyFind"
    /\ IF mainLogin[c] = NoUser
       THEN /\ IF readyState[c] = "OPEN"
               THEN /\ readyState' = [readyState EXCEPT ![c] = "CLOSING"]
                    /\ serverClose' = [serverClose EXCEPT
                                         ![c] = << 1008, "Invalid or expired token" >>]
               ELSE UNCHANGED << readyState, serverClose >>
            /\ pc' = [pc EXCEPT ![c] = "done"]
            /\ UNCHANGED regVars
       ELSE setupUserConnection(c, mainLogin[c])
    /\ UNCHANGED << now, mainLogin, globalUsedTokens, users, sent, clientEvents, validations >>
    /\ UNCHANGED hsVars
    /\ UNCHANGED legacyVars
    /\ UNCHANGED extVars
    /\ UNCHANGED dispVars
    /\ UNCHANGED bcVars
    /\ UNCHANGED laterVars

\* updateUserPresence returned: USER_STATUS_CHANGED is sent, the listeners are attached.
LegacySetupDone(c) ==
    /\ pc[c] = "setup"
    /\ sent' = Send(sent, c, << "USER_STATUS_CHANGED", "online" >>)
    /\ pc' = [pc EXCEPT ![c] = "legacy"]
    /\ UNCHANGED << now, readyState, serverClose, mainLogin, globalUsedTokens, users,
                    clientEvents, validations >>
    /\ UNCHANGED hsVars
    /\ UNCHANGED regVars
    /\ UNCHANGED legacyVars
    /\ UNCHANGED extVars
    /\ UNCHANGED dispVars
    /\ UNCHANGED bcVars
    /\ UNCHANGED laterVars

\* The frame, if any, that the switch of the message listener writes for an event
\* other than AUTH_LOGIN; throws says whether the handler of the event threw.
\* What the handlers do to the conversations is not part of this component.
legacyReply(c, ev, throws) ==
    IF ev.type = "AUTH_ME"
    THEN IF userId[c] = NoUser \/ throws
         THEN << << "AUTH_ME_RESPONSE", "Internal server error" >> >>
         ELSE << << "AUTH_ME_RESPONSE", "success" >> >>
    ELSE IF ev.type = "PING"
    THEN << << "PONG", "" >> >>
    ELSE IF ev.type = "SEND_MESSAGE"
    THEN IF throws THEN << << "ERROR", "Failed to send message" >> >> ELSE << >>
    ELSE << >>

\* ws.on('message') of the session server.
LegacyOnMessage(c, ev, throws) ==
    /\ pc[c] = "legacy"
    /\ readyState[c] = "OPEN"
    /\ clientEvents < MaxLegacyEvents
    /\ clientEvents' = clientEvents + 1
    /\ throws => ( /\ ev.type \in LegacyHandled
                   /\ userId[c] # NoUser \/ ev.type \in LegacyPreAuth )
    /\ thrown' = [thrown EXCEPT ![c] = IF throws THEN @ + 1 ELSE @]
    /\ IF userId[c] = NoUser /\ ev.type \notin LegacyPreAuth
       THEN /\ sent' = Send(sent, c, << "ERROR", "Authentication required" >>)
            /\ UNCHANGED legacyLogins
       ELSE IF ev.type = "AUTH_LOGIN"
       THEN IF legacyVerify(ev.payload) # "ok"
            THEN /\ sent' = Send(sent, c, << "AUTH_LOGIN_RESPONSE", legacyVerify(ev.payload) >>)
                 /\ UNCHANGED legacyLogins
            ELSE /\ legacyLogins' = legacyLogins \cup {[conn |-> c, payload |-> ev.payload]}
                 /\ UNCHANGED sent
       ELSE /\ sent' = [sent EXCEPT ![c] = @ \o legacyReply(c, ev, throws)]
            /\ UNCHANGED legacyLogins
    /\ UNCHANGED << now, readyState, serverClose, pc, mainLogin, globalUsedTokens, users,
                    validations, sessions >>
    /\ UNCHANGED hsVars
    /\ UNCHANGED regVars
    /\ UNCHANGED extVars
    /\ UNCHANGED bcVars
    /\ UNCHANGED laterVars

\* case AUTH_LOGIN after its awaits: the user row is found or created, a session
\* row is created and the response is written; a throw of prisma is answered
\* with 'Internal server error'.
LegacyLoginDone(l, dbOk) ==
    /\ l \in legacyLogins
    /\ legacyLogins' = legacyLogins \ {l}
    /\ IF dbOk
       THEN /\ users' = users \cup {l.payload.walletAddress}
            /\ sessions' = sessions \cup
                   {[walletAddress |-> l.payload.walletAddress, payload |-> l.payload]}
            /\ sent' = Send(sent, l.conn, << "AUTH_LOGIN_RESPONSE", "success" >>)
       ELSE /\ sent' = Send(sent, l.conn, << "AUTH_LOGIN_RESPONSE", "Internal server error" >>)
            /\ UNCHANGED << users, sessions >>
    /\ UNCHANGED << now, readyState, serverClose, pc, mainLogin, globalUsedTokens,
                    clientEvents, validations >>
    /\ UNCHANGED hsVars
    /\ UNCHANGED regVars
    /\ UNCHANGED extVars
    /\ UNCHANGED dispVars
    /\ UNCHANGED bcVars
    /\ UNCHANGED laterVars

\* The 'close' event of a transport of the session server: cleanup().
LegacyClose(c) ==
    /\ readyState[c] \in {"OPEN", "CLOSING"}
    /\ readyState[c] = "OPEN" => clientEvents < MaxLegacyEvents
    /\ clientEvents' = IF readyState[c] = "OPEN" THEN clientEvents + 1 ELSE clientEvents
    /\ readyState' = [readyState EXCEPT ![c] = "CLOSED"]
    /\ IF pc[c] = "legacy" /\ userId[c] # NoUser
       THEN connections' = [connections EXCEPT ![userId[c]] = None]
       ELSE UNCHANGED connections
    /\ pc' = [pc EXCEPT ![c] = IF @ = "legacy" THEN "done" ELSE @]
    /\ UNCHANGED << now, serverClose, mainLogin, globalUsedTokens, users, userId, sent,
                    validations, replacedBy >>
    /\ UNCHANGED hsVars
    /\ UNCHANGED legacyVars
    /\ UNCHANGED extVars
    /\ UNCHANGED dispVars
    /\ UNCHANGED bcVars
    /\ UNCHANGED laterVars

NextLegacy ==
    \/ \E c \in Conns : LegacyConnectAnonymous(c)
    \/ \E c \in Conns, tok \in sessions \cup {BadSession} : LegacyConnectToken(c, tok)
    \/ \E c \in Conns : LegacySessionFound(c)
    \/ \E c \in Conns : LegacySetupDone(c)
    \/ \E c \in Conns, ev \in LegacyEvents, throws \in BOOLEAN : LegacyOnMessage(c, ev, throws)
    \/ \E l \in legacyLogins, dbOk \in BOOLEAN : LegacyLoginDone(l, dbOk)
    \/ \E c \in Conns : LegacyClose(c)

SpecLegacy == Init /\ [][NextLegacy]_vars

\* ------------------------------------------------ the validator on its own
\* validateAuthPayload as its callers see it over a long run of the process:
\* credentials are presented one after the other while the clock advances past
\* the pruning horizon.
ValidatorPayloads ==
    { [walletAddress |-> "U1", jwtToken |-> T1],
      [walletAddress |-> "U1", jwtToken |-> TLong],
      [walletAddress |-> "U2", jwtToken |-> TLong],
      [walletAddress |-> "U1", jwtToken |-> TPlainU1],
      [walletAddress |-> "U2", jwtToken |-> TPlainU2] }

\* Advances of Date.now() between two calls.
ValidatorSteps == {1, PruneHorizon}

\* One call of validateAuthPayload(payload).
Validate(payload) ==
    LET authResult == validateAuthPayload(payload) IN
    /\ clientEvents < MaxValidations
    /\ clientEvents' = clientEvents + 1
    /\ usedTokens' = authResult.used
    /\ validations' = IF authResult.consumed
                      THEN validations \cup
                             {[nonce |-> payload.jwtToken.nonce, time |-> now, endpoint |-> "auth"]}
                      ELSE validations
    /\ attempts' = Append(attempts, [payload |-> payload, time |-> now,
                                     isValid |-> authResult.isValid,
                                     error |-> authResult.error])
    /\ UNCHANGED << now, readyState, serverClose, pc, pendingConnections, startTime,
                    authenticated, authTimer, graceTimers, logins, mainLogin,
                    globalUsedTokens, users, sent, loginSeen >>
    /\ UNCHANGED regVars
    /\ UNCHANGED legacyVars
    /\ UNCHANGED dispVars
    /\ UNCHANGED bcVars
    /\ UNCHANGED laterVars

\* Date.now() moves on between two calls.
ValidatorTick(d) ==
    /\ clientEvents < MaxValidations
    /\ clientEvents' = clientEvents + 1
    /\ now' = now + d
    /\ UNCHANGED << readyState, serverClose, pc, pendingConnections, startTime,
                    authenticated, authTimer, graceTimers, logins, mainLogin, usedTokens,
                    globalUsedTokens, users, sent, validations, loginSeen >>
    /\ UNCHANGED regVars
    /\ UNCHANGED auxVars

NextValidator ==
    \/ \E payload \in ValidatorPayloads : Validate(payload)
    \/ \E d \in ValidatorSteps : ValidatorTick(d)

SpecValidator == Init /\ [][NextValidator]_vars

\* ---------------------------------------------------- broadcast fanout
\* The excludeUserId of a call: null (handleSendMessage) or the acting user.
Excludes == {NoUser, "U1"}

\* The users that join and leave the channel while the server runs.
Movers == {"U2"}

\* A handler joins or leaves the channel: a row of prisma.channelMember is
\* created or deleted.
MembershipChange(u) ==
    /\ u \in Movers
    /\ channelMembers' = IF u \in channelMembers
                         THEN channelMembers \ {u}
                         ELSE channelMembers \cup {u}
    /\ UNCHANGED << now, readyState, serverClose, pc, mainLogin, globalUsedTokens, users,
                    sent, clientEvents, validations, broadcast, reports >>
    /\ UNCHANGED hsVars
    /\ UNCHANGED regVars
    /\ UNCHANGED << legacyVars, extVars, dispVars >>
    /\ UNCHANGED laterVars

\* broadcastToChannel up to its await: the event is encoded and
\* prisma.channelMember.findMany reads the rows of the channel.
BroadcastRead(exclude) ==
    /\ ~broadcast.active
    /\ reports.calls < MaxBroadcasts
    /\ broadcast' = [active |-> TRUE, exclude |-> exclude, members |-> channelMembers]
    /\ UNCHANGED << now, readyState, serverClose, pc, mainLogin, globalUsedTokens, users,
                    sent, clientEvents, validations, channelMembers, reports >>
    /\ UNCHANGED hsVars
    /\ UNCHANGED regVars
    /\ UNCHANGED << legacyVars, extVars, dispVars >>
    /\ UNCHANGED laterVars

\* Members whose registered connection is open: connections.get(userId) with
\* readyState 1.
connected(members) ==
    {u \in members : connections[u] # None /\ readyState[connections[u]] = "OPEN"}

\* A loop that writes to the excluded user as well.
recipients_all(b) ==
    connected(b.members)

\* The members for which the loop of broadcastToChannel calls ws.send.
recipients(b) ==
    connected(b.members \ {b.exclude})

\* The rest of broadcastToChannel, after findMany returned (or rejected): one
\* ws.send per recipient, of which those in fails throw; the counts are logged
\* and the function returns nothing.
BroadcastLoop(dbOk, fails) ==
    LET attempted == IF dbOk THEN recipients(broadcast) ELSE {}
        delivered == attempted \ fails
    IN
    /\ broadcast.active
    /\ fails \subseteq attempted
    /\ sent' = [c \in Conns |->
                  IF \E u \in delivered : connections[u] = c
                  THEN Append(sent[c], << "MESSAGE_RECEIVED", reports.calls + 1 >>)
                  ELSE sent[c]]
    /\ reports' = [calls |-> reports.calls + 1,
                   read |-> dbOk,
                   members |-> broadcast.members,
                   exclude |-> broadcast.exclude,
                   open |-> connected(broadcast.members),
                   attempted |-> attempted,
                   delivered |-> delivered,
                   logged |-> IF dbOk
                              THEN << Cardinality(delivered), Cardinality(broadcast.members) >>
                              ELSE << >>,
                   returned |-> << >>]
    /\ broadcast' = NoBroadcast
    /\ UNCHANGED << now, readyState, serverClose, pc, mainLogin, globalUsedTokens, users,
                    clientEvents, validations, channelMembers >>
    /\ UNCHANGED hsVars
    /\ UNCHANGED regVars
    /\ UNCHANGED << legacyVars, extVars, dispVars >>
    /\ UNCHANGED laterVars

\* The connections of the fanout are set up with credentials that verify and a
\* database that answers; the other outcomes of the set-up are behaviours of Spec.
NextBroadcast ==
    \/ \E c \in Conns, t \in MainTokens \ {NoToken} : ConnectMain(c, t)
    \/ \E c \in Conns : MainFindDone(c, TRUE)
    \/ \E c \in Conns : MainCreateDone(c, TRUE)
    \/ \E c \in Conns : SetupDone(c)
    \/ \E c \in Conns : TransportClose(c)
    \/ \E u \in Movers : MembershipChange(u)
    \/ \E exclude \in Excludes : BroadcastRead(exclude)
    \/ \E dbOk \in BOOLEAN, fails \in SUBSET Wallets : BroadcastLoop(dbOk, fails)

SpecBroadcast == Init /\ [][NextBroadcast]_vars

\* ------------------------------------------------------- unread counts
Channels == {"C1", "C2"}
Stamps == 1..MaxStamp

\* Rows of prisma.message, and of prisma.readReceipt joined with the channel of
\* the message each receipt is for.
MessageRows ==
    [authorId : {"U1", "U2"}, channelId : {"C1"}, sentAt : Stamps, deleted : BOOLEAN]
        \cup {[authorId |-> "U2", channelId |-> "C2", sentAt |-> MaxStamp, deleted |-> FALSE]}
ReceiptRows ==
    [userId : {"U1"}, channelId : Channels, readAt : Stamps]
        \cup {[userId |-> "U2", channelId |-> "C1", readAt |-> MaxStamp]}

\* The contents of a table: at most k rows.
RECURSIVE TablesOf(_, _)
TablesOf(rows, k) ==
    IF k = 0 THEN {{}}
    ELSE LET smaller == TablesOf(rows, k - 1) IN
         smaller \cup {t \cup {r} : t \in smaller, r \in rows}

Tables(rows) ==
    TablesOf(rows, MaxRows)

\* The largest element of a non-empty set of timestamps.
Latest(stamps) ==
    CHOOSE t \in stamps : \A x \in stamps : x <= t

\* What the database does during one call: every query resolves, a query of
\* getLastReadTime rejects, or the membership or the count query rejects.
DbOutcomes == {"ok", "watermarkFails", "countFails"}

\* getLastReadTime: the readAt of the most recent receipt of the user for a
\* message of the channel, else user.lastSeen, else the epoch; the epoch as
\* well when a query rejects.
getLastReadTime(u, ch, db, receipts, lastSeen) ==
    LET mine == {r \in receipts : r.userId = u /\ r.channelId = ch} IN
    IF db = "watermarkFails" THEN 0
    ELSE IF mine # {} THEN Latest({r.readAt : r \in mine})
    ELSE IF lastSeen # Off THEN lastSeen
    ELSE 0

\* A count that takes the messages at the watermark for unread as well.
calculateChannelUnreadCount_inclusive(u, ch, member, db, messages, receipts, lastSeen) ==
    IF db = "countFails" \/ ~member THEN 0
    ELSE Cardinality({m \in messages :
                        /\ m.channelId = ch
                        /\ ~m.deleted
                        /\ m.authorId # u
                        /\ m.sentAt >= getLastReadTime(u, ch, db, receipts, lastSeen)})

\* calculateChannelUnreadCount: 0 for a user without a membership row and when
\* a query rejects, else prisma.message.count of the rows of the channel that
\* are not deleted, not the user's own and sent after the last read time.
calculateChannelUnreadCount(u, ch, member, db, messages, receipts, lastSeen) ==
    IF db = "countFails" \/ ~member THEN 0
    ELSE Cardinality({m \in messages :
                        /\ m.channelId = ch
                        /\ ~m.deleted
                        /\ m.authorId # u
                        /\ m.sentAt > getLastReadTime(u, ch, db, receipts, lastSeen)})

\* One call calculateChannelUnreadCount("U1", "C1") against some content of the
\* database.
Calculate(member, db, messages, receipts, lastSeen) ==
    /\ unreadCalc' = [userId |-> "U1", channelId |-> "C1", member |-> member,
                      db |-> db, messages |-> messages, receipts |-> receipts,
                      lastSeen |-> lastSeen,
                      count |-> calculateChannelUnreadCount("U1", "C1", member, db,
                                                            messages, receipts, lastSeen)]
    /\ UNCHANGED << now, readyState, serverClose, pc, mainLogin, globalUsedTokens, users,
                    sent, clientEvents, validations >>
    /\ UNCHANGED hsVars
    /\ UNCHANGED regVars
    /\ UNCHANGED << legacyVars, extVars, dispVars, bcVars >>
    /\ UNCHANGED << notifyVars, listVars, storeVars, beatVars, finalVars >>

\* One call in a behaviour: the call reads the database and writes nothing.
NextUnread ==
    /\ unreadCalc = NoCalc
    /\ \E member \in BOOLEAN, db \in DbOutcomes, messages \in Tables(MessageRows),
          receipts \in Tables(ReceiptRows), lastSeen \in {Off} \cup (0..MaxStamp) :
           Calculate(member, db, messages, receipts, lastSeen)

SpecUnread == Init /\ [][NextUnread]_vars

\* ------------------------------------------------------- messages and counts
\* The message handlers of the server and notificationService, for the users
\* U1 and U2 and one channel. Every database query resolves, and the cache
\* runs on its in-process Map, where a stored string is read back as it was
\* stored; no entry reaches its TTL of 300 s.
NotifyUsers == {"U1", "U2"}
NoMessage == 0
EmptyCounts == -2

\* State of the two WebSocket servers, which the message handlers leave alone.
serverVars == << now, readyState, serverClose, pc, mainLogin, globalUsedTokens, users,
                 sent, clientEvents, validations, hsVars, regVars, legacyVars, extVars,
                 dispVars, broadcast, reports >>

\* Everything the later components leave alone.
coreVars == << serverVars, channelMembers, calcVars, notifyVars, listVars, storeVars, beatVars >>
restOfOrder == << presenceVars, haltVars, codecVars, dmVars, reactionVars, inviteVars >>
besidesOrder == << coreVars, restOfOrder >>
restOfPresence == << orderVars, haltVars, codecVars, dmVars, reactionVars, inviteVars >>
besidesPresence == << coreVars, restOfPresence >>
restOfHalt == << orderVars, presenceVars, codecVars, dmVars, reactionVars, inviteVars >>
besidesHalt == << coreVars, restOfHalt >>
restOfCodec == << orderVars, presenceVars, haltVars, dmVars, reactionVars, inviteVars >>
besidesCodec == << coreVars, restOfCodec >>
restOfDm == << orderVars, presenceVars, haltVars, codecVars, reactionVars, inviteVars >>
besidesDm == << coreVars, restOfDm >>
restOfReaction == << orderVars, presenceVars, haltVars, codecVars, dmVars, inviteVars >>
besidesReaction == << coreVars, restOfReaction >>
restOfInvite == << orderVars, presenceVars, haltVars, codecVars, dmVars, reactionVars >>
besidesInvite == << coreVars, restOfInvite >>

\* What the message handlers leave alone.
besidesNotify == << serverVars, calcVars, listVars, storeVars, beatVars,
                    finalVars >>

\* The database as one call of notificationService reads it.
Database(members, msgs, rcpts) ==
    [members |-> members, messages |-> msgs, receipts |-> rcpts]

\* calculateChannelUnreadCount(u, channelId) against db.
unreadOf(u, db) ==
    calculateChannelUnreadCount(u, "C1", u \in db.members, "ok", db.messages,
                                db.receipts, userLastSeen[u])

\* RedisCache.del(key): the method has one parameter, so of the keys it is
\* called with only the first is deleted.
del(cache, keys) ==
    [cache EXCEPT ![keys[1]] = Off]

\* invalidateCountCaches(userId, channelId): one call this.redis.del(...patterns)
\* with the total, the all and the channel key.
invalidateCountCaches(cache, u) ==
    del(cache, << <<"total", u>>, <<"all", u>>, <<"channel", u>> >>)

RECURSIVE invalidateEach(_, _)
invalidateEach(cache, us) ==
    IF us = {} THEN cache
    ELSE LET u == CHOOSE x \in us : TRUE IN
         invalidateEach(invalidateCountCaches(cache, u), us \ {u})

\* getChannelUnreadCount / getTotalUnreadCount: the cached value when there is
\* one, else the calculated value, which is cached. With one channel the total
\* of calculateTotalUnreadCount is the count of that channel.
getCount(cache, kind, u, db) ==
    LET k == <<kind, u>> IN
    IF cache[k] # Off THEN [count |-> cache[k], cache |-> cache]
    ELSE [count |-> unreadOf(u, db), cache |-> [cache EXCEPT ![k] = unreadOf(u, db)]]

\* getAllChannelUnreadCounts: the cached object when there is one, else one
\* count for each channel of the user (EmptyCounts is {}).
getAllCounts(cache, u, db) ==
    LET k == <<"all", u>>
        counts == IF u \in db.members THEN unreadOf(u, db) ELSE EmptyCounts
    IN  IF cache[k] # Off THEN [count |-> cache[k], cache |-> cache]
        ELSE [count |-> counts, cache |-> [cache EXCEPT ![k] = counts]]

Frame(to, event, channelCount, totalCount) ==
    [to |-> to, event |-> event, channelUnreadCount |-> channelCount,
     totalUnreadCount |-> totalCount]

\* The count update for one user: both counts are read, then the frame is sent.
countUpdate(cache, u, db) ==
    LET ch == getCount(cache, "channel", u, db)
        tot == getCount(ch.cache, "total", u, db)
    IN  [cache |-> tot.cache,
         frame |-> Frame(u, "UNREAD_COUNT_UPDATE", ch.count, tot.count)]

RECURSIVE updateEach(_, _, _, _)
updateEach(cache, us, db, frames) ==
    IF us = {} THEN [cache |-> cache, frames |-> frames]
    ELSE LET u == CHOOSE x \in us : TRUE
             r == countUpdate(cache, u, db)
         IN  updateEach(r.cache, us \ {u}, db, frames \cup {r.frame})

\* handleNewMessage: the members except the author; their caches invalidated;
\* then a count update to each of them that has an open connection.
handleNewMessage(cache, author, db) ==
    LET members == db.members \ {author} IN
    updateEach(invalidateEach(cache, members), members \cap online, db, {})

\* handleMessageRead: the caches of the user invalidated, both counts read, and
\* the update sent to the connection of the user.
handleMessageRead(cache, u, db) ==
    LET r == countUpdate(invalidateCountCaches(cache, u), u, db) IN
    [cache |-> r.cache, frames |-> IF u \in online THEN {r.frame} ELSE {}]

\* setupUserConnection and the close listener: the user is registered or
\* removed, and updateUserPresence writes lastSeen.
Attach(u) ==
    /\ u \notin online
    /\ clock < MaxClock
    /\ clock' = clock + 1
    /\ online' = online \cup {u}
    /\ userLastSeen' = [userLastSeen EXCEPT ![u] = clock']
    /\ pushed' = {}
    /\ lastEvent' = [type |-> "connect", userId |-> u, member |-> u \in channelMembers]
    /\ UNCHANGED << dbMessages, dbReceipts, countCache, channelMembers >>
    /\ UNCHANGED besidesNotify

Detach(u) ==
    /\ u \in online
    /\ clock < MaxClock
    /\ clock' = clock + 1
    /\ online' = online \ {u}
    /\ userLastSeen' = [userLastSeen EXCEPT ![u] = clock']
    /\ pushed' = {}
    /\ lastEvent' = [type |-> "close", userId |-> u, member |-> u \in channelMembers]
    /\ UNCHANGED << dbMessages, dbReceipts, countCache, channelMembers >>
    /\ UNCHANGED besidesNotify

\* handleSendMessage: a sender without a membership row gets one; the message
\* is created; handleNewMessage; then broadcastToChannel(channelId,
\* MESSAGE_RECEIVED, message, null) to every member with an open connection.
handleSendMessage(u) ==
    /\ u \in online
    /\ clock < MaxClock
    /\ Cardinality(dbMessages) < MaxRows
    /\ LET members == channelMembers \cup {u}
           message == [id |-> clock + 1, authorId |-> u, channelId |-> "C1",
                       sentAt |-> clock + 1, deleted |-> FALSE]
           db == Database(members, dbMessages \cup {message}, dbReceipts)
           r == handleNewMessage(countCache, u, db)
       IN  /\ clock' = clock + 1
           /\ channelMembers' = members
           /\ dbMessages' = db.messages
           /\ countCache' = r.cache
           /\ pushed' = r.frames \cup
                    {Frame(m, "MESSAGE_RECEIVED", Off, Off) : m \in members \cap online}
           /\ lastEvent' = [type |-> "SEND_MESSAGE", userId |-> u,
                            member |-> u \in channelMembers]
    /\ UNCHANGED << dbReceipts, userLastSeen, online >>
    /\ UNCHANGED besidesNotify

\* handleMarkAsRead: nothing for a message that does not exist and for a user
\* without a membership row; else the receipt is upserted with readAt now and
\* handleMessageRead runs.
handleMarkAsRead(u, messageId) ==
    /\ u \in online
    /\ clock < MaxClock
    /\ lastEvent' = [type |-> "MARK_AS_READ", userId |-> u, member |-> u \in channelMembers]
    /\ IF messageId = NoMessage \/ u \notin channelMembers
       THEN /\ pushed' = {}
            /\ UNCHANGED << clock, dbReceipts, countCache >>
       ELSE LET receipt == [messageId |-> messageId, userId |-> u, channelId |-> "C1",
                            readAt |-> clock + 1]
                rcpts == {x \in dbReceipts : x.messageId # messageId \/ x.userId # u}
                             \cup {receipt}
                r == handleMessageRead(countCache, u,
                                       Database(channelMembers, dbMessages, rcpts))
            IN  /\ clock' = clock + 1
                /\ dbReceipts' = rcpts
                /\ countCache' = r.cache
                /\ pushed' = r.frames
    /\ UNCHANGED << dbMessages, userLastSeen, online, channelMembers >>
    /\ UNCHANGED besidesNotify

\* handleGetUnreadCounts: the counts of all channels and the total, sent to the
\* socket of the request.
handleGetUnreadCounts(u) ==
    /\ u \in online
    /\ LET db == Database(channelMembers, dbMessages, dbReceipts)
           all == getAllCounts(countCache, u, db)
           tot == getCount(all.cache, "total", u, db)
       IN  /\ countCache' = tot.cache
           /\ pushed' = {Frame(u, "UNREAD_COUNTS_RESPONSE", all.count, tot.count)}
    /\ lastEvent' = [type |-> "GET_UNREAD_COUNTS", userId |-> u,
                     member |-> u \in channelMembers]
    /\ UNCHANGED << clock, dbMessages, dbReceipts, userLastSeen, online, channelMembers >>
    /\ UNCHANGED besidesNotify

NextNotify ==
    \/ \E u \in NotifyUsers : Attach(u)
    \/ \E u \in NotifyUsers : Detach(u)
    \/ \E u \in Movers : MembershipChange(u)
    \/ \E u \in NotifyUsers : handleSendMessage(u)
    \/ \E u \in NotifyUsers, m \in {NoMessage} \cup {x.id : x \in dbMessages} :
           handleMarkAsRead(u, m)
    \/ \E u \in NotifyUsers : handleGetUnreadCounts(u)

SpecNotify == Init /\ [][NextNotify]_vars

\* ------------------------------------------------------- channel lists
\* The channel-list cache of the first server: the private channel C1, whose
\* membership rows are channelMembers, and the public text-group General,
\* which every query for a user returns. Every call of the external store
\* succeeds once it is connected, and no entry reaches its TTL of 120 s.
getUserChannelsKey(u) ==
    <<"user", u>>

\* What the channel-list handlers leave alone.
besidesLists == << serverVars, calcVars, notifyVars, storeVars, beatVars,
                   finalVars >>

\* The cache as one call sees it.
Store ==
    [connected |-> isConnected, redis |-> redisStore, memory |-> memoryCache]

\* RedisCache.get / set / del for the channel-list keys.
cacheGet(store, key) ==
    IF store.connected THEN store.redis[key] ELSE store.memory[key]

cacheSet(store, key, value) ==
    IF store.connected THEN [store EXCEPT !.redis[key] = value]
    ELSE [store EXCEPT !.memory[key] = value]

cacheDel(store, key) ==
    cacheSet(store, key, Miss)

\* RedisCache.clearAllChannelCaches: without the external store the keys of
\* the Map that start with 'channels:' are deleted; with it nothing is.
clearAllChannelCaches(store) ==
    IF store.connected THEN store
    ELSE [store EXCEPT !.memory = [k \in ListKeys |->
                                      IF k[1] = "channels" THEN Miss ELSE store.memory[k]]]

\* prisma.channel.findMany: the channels the user is a member of and the
\* public text-groups.
userChannels(u) ==
    IF u \in channelMembers THEN {"C1"} ELSE {}

publicChannels == {"General"}

dbChannels(u) ==
    userChannels(u) \cup publicChannels

\* The merged list the handlers build from the two cached lists.
cachedChannels(store, u) ==
    LET cachedUser == cacheGet(store, getUserChannelsKey(u))
        cachedPublic == cacheGet(store, PublicKey)
    IN  IF cachedUser # Miss /\ cachedPublic # Miss THEN cachedUser \cup cachedPublic
        ELSE IF cachedUser # Miss THEN cachedUser
        ELSE {}

\* A validation that clears the caches whatever the comparison gives.
validateCacheVsDatabase_clears(store, u) ==
    [valid |-> cachedChannels(store, u) = dbChannels(u),
     store |-> clearAllChannelCaches(store)]

\* validateCacheVsDatabase: the ids of the database compared with the ids of
\* the cache; on a difference clearAllChannelCaches and false, else true.
validateCacheVsDatabase(store, u) ==
    IF cachedChannels(store, u) # dbChannels(u)
    THEN [valid |-> FALSE, store |-> clearAllChannelCaches(store)]
    ELSE [valid |-> TRUE, store |-> store]

\* RedisCache.init: the ping of the external store succeeded.
RedisInit ==
    /\ ~isConnected
    /\ isConnected' = TRUE
    /\ UNCHANGED << redisStore, memoryCache, lastList, channelMembers >>
    /\ UNCHANGED besidesLists

\* POST /api/admin/validate-cache/:userId
ValidateCache(u) ==
    /\ LET v == validateCacheVsDatabase(Store, u) IN
          /\ redisStore' = v.store.redis
          /\ memoryCache' = v.store.memory
          /\ lastList' = [op |-> "validate", userId |-> u, valid |-> v.valid,
                          channels |-> Miss]
    /\ UNCHANGED << isConnected, channelMembers >>
    /\ UNCHANGED besidesLists

\* POST /api/admin/clear-cache
AdminClearCache ==
    /\ LET cleared == clearAllChannelCaches(Store) IN
          /\ redisStore' = cleared.redis
          /\ memoryCache' = cleared.memory
    /\ lastList' = [op |-> "clear", userId |-> "none", valid |-> FALSE, channels |-> Miss]
    /\ UNCHANGED << isConnected, channelMembers >>
    /\ UNCHANGED besidesLists

\* POST /api/admin/clear-user-cache/:userId
AdminClearUserCache(u) ==
    /\ LET cleared == cacheDel(Store, getUserChannelsKey(u)) IN
          /\ redisStore' = cleared.redis
          /\ memoryCache' = cleared.memory
    /\ lastList' = [op |-> "clearUser", userId |-> u, valid |-> FALSE, channels |-> Miss]
    /\ UNCHANGED << isConnected, channelMembers >>
    /\ UNCHANGED besidesLists

\* handleFetchChannels of handlers/websocketHandlers.js: the validation, whose
\* result is not used; then the merged cached list when both keys are cached;
\* else the list of the database, which is cached under both keys. General is
\* public, so it is in every list of the database and the branch that joins
\* the user to General is not taken.
handleFetchChannels(u) ==
    /\ LET v == validateCacheVsDatabase(Store, u)
           cachedUser == cacheGet(v.store, getUserChannelsKey(u))
           cachedPublic == cacheGet(v.store, PublicKey)
           written == cacheSet(cacheSet(v.store, getUserChannelsKey(u), userChannels(u)),
                               PublicKey, publicChannels)
       IN  IF cachedUser # Miss /\ cachedPublic # Miss
           THEN /\ redisStore' = v.store.redis
                /\ memoryCache' = v.store.memory
                /\ lastList' = [op |-> "fetch", userId |-> u, valid |-> v.valid,
                                channels |-> cachedUser \cup cachedPublic]
           ELSE /\ redisStore' = written.redis
                /\ memoryCache' = written.memory
                /\ lastList' = [op |-> "fetch", userId |-> u, valid |-> v.valid,
                                channels |-> dbChannels(u)]
    /\ UNCHANGED << isConnected, channelMembers >>
    /\ UNCHANGED besidesLists

NextChannels ==
    \/ RedisInit
    \/ \E u \in Movers : MembershipChange(u)
    \/ \E u \in ListUsers : ValidateCache(u)
    \/ AdminClearCache
    \/ \E u \in ListUsers : AdminClearUserCache(u)
    \/ \E u \in ListUsers : handleFetchChannels(u)

SpecChannels == Init /\ [][NextChannels]_vars

\* ------------------------------------------------------- cache operations
\* RedisCache as a key-value store. A call of the external store either
\* resolves or rejects (fails); before RedisInit every operation uses the Map.
besidesStore == << serverVars, calcVars, notifyVars, channelMembers, redisStore,
                  memoryCache, lastList, beatVars, finalVars >>

\* How a call is served.
modeOf(fails) ==
    IF ~isConnected THEN "fallback" ELSE IF fails THEN "failing" ELSE "connected"

\* A read of the Map that hands out entries past their expiry as well.
getFromMemoryCache_keeps(mem, key) ==
    [value |-> mem[key].value, memory |-> mem]

\* getFromMemoryCache: an entry whose expiry lies before now is deleted and
\* null is returned; else the stored value, or null for a falsy one.
getFromMemoryCache(mem, key) ==
    IF mem[key] # NoEntry /\ cacheTime > mem[key].expiry
    THEN [value |-> Null, memory |-> [mem EXCEPT ![key] = NoEntry]]
    ELSE [value |-> mem[key].value, memory |-> mem]

\* this.redis.get(key): the external store drops an entry at its expiry.
externalGet(key) ==
    IF external[key] # NoEntry /\ cacheTime < external[key].expiry
    THEN external[key].value
    ELSE Null

\* setInMemoryCache / this.redis.set(key, value, { ex: ttlSeconds })
Entry(value, ttl) ==
    [value |-> value, expiry |-> cacheTime + ttl]

RECURSIVE readEach(_, _, _)
readEach(mem, keys, values) ==
    IF keys = << >> THEN [values |-> values, memory |-> mem]
    ELSE LET r == getFromMemoryCache(mem, Head(keys)) IN
         readEach(r.memory, Tail(keys), Append(values, r.value))

\* RedisCache.get
get(key, fails) ==
    /\ LET r == getFromMemoryCache(memory, key) IN
          IF isConnected /\ ~fails
          THEN /\ lastCall' = [op |-> "get", keys |-> <<key>>, mode |-> modeOf(fails),
                               returned |-> <<externalGet(key)>>]
               /\ UNCHANGED memory
          ELSE /\ lastCall' = [op |-> "get", keys |-> <<key>>, mode |-> modeOf(fails),
                               returned |-> <<r.value>>]
               /\ memory' = r.memory
    /\ UNCHANGED << cacheTime, external, lastSet, isConnected >>
    /\ UNCHANGED besidesStore

\* RedisCache.set: true in every mode; the Map takes the value when the
\* external store is not connected or rejects.
set(key, value, ttl, fails) ==
    /\ IF isConnected /\ ~fails
       THEN /\ external' = [external EXCEPT ![key] = Entry(value, ttl)]
            /\ UNCHANGED << memory, lastSet >>
       ELSE /\ memory' = [memory EXCEPT ![key] = Entry(value, ttl)]
            /\ lastSet' = [lastSet EXCEPT ![key] = Entry(value, ttl)]
            /\ UNCHANGED external
    /\ lastCall' = [op |-> "set", keys |-> <<key>>, mode |-> modeOf(fails),
                    returned |-> <<"true">>]
    /\ UNCHANGED << cacheTime, isConnected >>
    /\ UNCHANGED besidesStore

\* RedisCache.del(key): the Map entry without the external store; else the
\* entry of the external store, or false when the call rejects.
RedisCache_del(key, fails) ==
    /\ IF ~isConnected
       THEN /\ memory' = [memory EXCEPT ![key] = NoEntry]
            /\ lastSet' = [lastSet EXCEPT ![key] = NoEntry]
            /\ UNCHANGED external
       ELSE /\ external' = IF fails THEN external ELSE [external EXCEPT ![key] = NoEntry]
            /\ UNCHANGED << memory, lastSet >>
    /\ lastCall' = [op |-> "del", keys |-> <<key>>, mode |-> modeOf(fails),
                    returned |-> IF isConnected /\ fails THEN <<"false">> ELSE <<"true">>]
    /\ UNCHANGED << cacheTime, isConnected >>
    /\ UNCHANGED besidesStore

\* RedisCache.mget(keys)
mget(keys, fails) ==
    /\ LET r == readEach(memory, keys, << >>) IN
          IF isConnected /\ ~fails
          THEN /\ lastCall' = [op |-> "mget", keys |-> keys, mode |-> modeOf(fails),
                               returned |-> [i \in 1..Len(keys) |-> externalGet(keys[i])]]
               /\ UNCHANGED memory
          ELSE /\ lastCall' = [op |-> "mget", keys |-> keys, mode |-> modeOf(fails),
                               returned |-> r.values]
               /\ memory' = r.memory
    /\ UNCHANGED << cacheTime, external, lastSet, isConnected >>
    /\ UNCHANGED besidesStore

\* RedisCache.mset(keyValuePairs, ttlSeconds) with a pair for every key: one
\* set after the other; when the external store rejects the set of the
\* failAt-th pair, the pairs before it are written and false is returned.
mset(values, ttl, failAt) ==
    /\ IF ~isConnected
       THEN /\ memory' = [k \in CacheKeys |-> Entry(values[k], ttl)]
            /\ lastSet' = [k \in CacheKeys |-> Entry(values[k], ttl)]
            /\ UNCHANGED external
       ELSE /\ external' = [k \in CacheKeys |->
                               IF failAt = 0 \/ (failAt = 2 /\ k = "k1")
                               THEN Entry(values[k], ttl) ELSE external[k]]
            /\ UNCHANGED << memory, lastSet >>
    /\ lastCall' = [op |-> "mset", keys |-> <<"k1", "k2">>, mode |-> modeOf(failAt # 0),
                    returned |-> IF isConnected /\ failAt # 0 THEN <<"false">>
                                 ELSE <<"true">>]
    /\ UNCHANGED << cacheTime, isConnected >>
    /\ UNCHANGED besidesStore

\* A second passes.
CacheTick ==
    /\ cacheTime < MaxCacheTime
    /\ cacheTime' = cacheTime + 1
    /\ UNCHANGED << external, memory, lastSet, lastCall, isConnected >>
    /\ UNCHANGED besidesStore

NextCache ==
    \/ RedisInit
    \/ CacheTick
    \/ \E k \in CacheKeys, fails \in BOOLEAN : get(k, fails)
    \/ \E k \in CacheKeys, v \in CacheValues, ttl \in TTLs, fails \in BOOLEAN :
           set(k, v, ttl, fails)
    \/ \E k \in CacheKeys, fails \in BOOLEAN : RedisCache_del(k, fails)
    \/ \E fails \in BOOLEAN : mget(<<"k1", "k2">>, fails)
    \/ \E values \in [CacheKeys -> CacheValues], ttl \in TTLs, failAt \in 0..2 :
           mset(values, ttl, failAt)

SpecCache == Init /\ [][NextCache]_vars

\* ------------------------------------------------------- idle connections
\* One connection of the Gateway, watched by performHeartbeat, and one
\* authenticated connection of each server, watched by the timer of
\* resetConnectionTimeout. Time is read at the multiples of BeatStep.
BeatStep == heartbeatInterval

besidesBeat == << serverVars, calcVars, notifyVars, listVars, storeVars, channelMembers,
                  finalVars >>

\* The delay of the setTimeout of resetConnectionTimeout.
idleTimeout(s) ==
    IF s = "first" THEN firstIdleTimeout ELSE sessionIdleTimeout

\* Gateway.handleConnection: the record is created with lastHeartbeat and
\* lastActivity now.
GatewayConnect ==
    /\ gateway.state = "none"
    /\ gateway' = [state |-> "open", lastHeartbeat |-> beatTime, lastActivity |-> beatTime,
                   reason |-> ""]
    /\ UNCHANGED << beatTime, nextBeat, idle >>
    /\ UNCHANGED besidesBeat

\* Gateway.processMessage for an inbound message: lastActivity is now.
GatewayMessage ==
    /\ gateway.state = "open"
    /\ gateway' = [gateway EXCEPT !.lastActivity = beatTime]
    /\ UNCHANGED << beatTime, nextBeat, idle >>
    /\ UNCHANGED besidesBeat

\* Whether performHeartbeat takes the connection for dead.
dead(connection) ==
    \/ beatTime - connection.lastHeartbeat > connectionTimeout
    \/ beatTime - connection.lastActivity > connectionTimeout

\* Gateway.performHeartbeat, run by the interval: a dead connection is closed
\* with closeConnection(id, 'Heartbeat timeout'), a live one is sent HEARTBEAT.
performHeartbeat ==
    /\ beatTime = nextBeat
    /\ nextBeat' = nextBeat + heartbeatInterval
    /\ gateway' = IF gateway.state = "open" /\ dead(gateway)
                  THEN [gateway EXCEPT !.state = "closed", !.reason = "Heartbeat timeout"]
                  ELSE gateway
    /\ UNCHANGED << beatTime, idle >>
    /\ UNCHANGED besidesBeat

\* The connection handler of a server after setupUserConnection: the first
\* call of resetConnectionTimeout.
ServerSetup(s) ==
    /\ idle[s].state = "none"
    /\ idle' = [idle EXCEPT ![s] = [state |-> "open", deadline |-> beatTime + idleTimeout(s),
                                     lastInbound |-> beatTime, reason |-> ""]]
    /\ UNCHANGED << beatTime, nextBeat, gateway >>
    /\ UNCHANGED besidesBeat

\* ws.on('message'): resetConnectionTimeout clears the timer and arms it anew.
ServerMessage(s) ==
    /\ idle[s].state = "open"
    /\ idle' = [idle EXCEPT ![s].deadline = beatTime + idleTimeout(s),
                            ![s].lastInbound = beatTime]
    /\ UNCHANGED << beatTime, nextBeat, gateway >>
    /\ UNCHANGED besidesBeat

\* The timer of resetConnectionTimeout fires: ws.close(1000, 'Connection timeout').
IdleTimerFire(s) ==
    /\ idle[s].state = "open"
    /\ beatTime = idle[s].deadline
    /\ idle' = [idle EXCEPT ![s].state = "closed", ![s].deadline = Off,
                            ![s].reason = "Connection timeout"]
    /\ UNCHANGED << beatTime, nextBeat, gateway >>
    /\ UNCHANGED besidesBeat

\* Time passes, but not past a timer that is due.
BeatTick ==
    /\ beatTime + BeatStep <= MaxBeatTime
    /\ beatTime < nextBeat
    /\ \A s \in Servers : idle[s].state = "open" => beatTime < idle[s].deadline
    /\ beatTime' = beatTime + BeatStep
    /\ UNCHANGED << nextBeat, gateway, idle >>
    /\ UNCHANGED besidesBeat

NextHeartbeat ==
    \/ GatewayConnect
    \/ GatewayMessage
    \/ performHeartbeat
    \/ \E s \in Servers : ServerSetup(s)
    \/ \E s \in Servers : ServerMessage(s)
    \/ \E s \in Servers : IdleTimerFire(s)
    \/ BeatTick

SpecHeartbeat == Init /\ [][NextHeartbeat]_vars

\* Timers are callbacks of the event loop: a due timer eventually runs, and the
\* clock reaches the next deadline.
SpecLive ==
    /\ Spec
    /\ WF_vars(Tick)
    /\ \A c \in Conns : WF_vars(AuthTimerFire(c))
    /\ \A c \in Conns : WF_vars(\E d \in graceTimers[c] : GraceTimerFire(c, d))

\* ------------------------------------------------------------ properties
Replaced == << 1000, "Replaced by new connection" >>
AuthFailedClose == << 1008, "Authentication failed" >>

\* Frame i of the frames written to c has the given type.
FrameIs(c, i, type) ==
    sent[c][i][1] = type

HasFrame(c, type) ==
    \E i \in 1..Len(sent[c]) : FrameIs(c, i, type)

\* This step appends exactly one frame, of the given type, to c.
Appends(c, type) ==
    /\ Len(sent'[c]) = Len(sent[c]) + 1
    /\ sent'[c][Len(sent'[c])][1] = type

\* The registry holds each connection under the identity it authenticated as,
\* hence under one identity only, and each identity has one entry at most.
RegistryInv ==
    \A u \in Wallets :
        connections[u] # None =>
            /\ userId[connections[u]] = u
            /\ \A v \in Wallets : connections[v] = connections[u] => v = u

\* A step that installs c for u closes the open connection u had, with the
\* replacement reason, in the same step.
ReplaceStep ==
    \A u \in Wallets, c \in Conns :
        (connections'[u] = c /\ connections[u] # c) =>
            LET e == connections[u] IN
            (e # None /\ readyState[e] = "OPEN") =>
                /\ readyState'[e] = "CLOSING"
                /\ serverClose'[e] = Replaced

\* C1: the registry maps each identity to at most one connection, and
\* registering a connection for an identity whose registered connection is open
\* closes that connection with reason 'Replaced by new connection' as the new
\* one is installed.
C1_RegistryReplaces ==
    []RegistryInv /\ [][ReplaceStep]_vars

\* An open registered connection has been closed by the server for its successor,
\* which the registry now holds.
C1_Witness ==
    \E c \in Conns :
        /\ replacedBy[c] # None
        /\ readyState[c] = "CLOSING"
        /\ serverClose[c] = Replaced
        /\ connections[userId[c]] = replacedBy[c]
        /\ readyState[replacedBy[c]] = "OPEN"

\* C2: once the close event of a replaced connection has been handled, the
\* registry still resolves the identity to the connection that replaced it, as
\* long as that one is open.
C2_SecondStaysRegistered ==
    \A c1, c2 \in Conns :
        ( /\ replacedBy[c1] = c2
          /\ serverClose[c1] = Replaced
          /\ readyState[c1] = "CLOSED"
          /\ readyState[c2] = "OPEN"
          /\ userId[c2] = userId[c1] )
            => connections[userId[c2]] = c2

\* C3: a nonce that was validated once is rejected by every later validation,
\* on either endpoint, until it is pruned for age: two validations of one nonce
\* lie more than the pruning horizon apart.
C3_NonceValidatedOnce ==
    \A v, w \in validations :
        (v.nonce = w.nonce /\ v # w) =>
            (v.time - w.time > PruneHorizon \/ w.time - v.time > PruneHorizon)

\* C4: a login attempt that is answered with AUTH_FAILED leaves the consumed
\* nonces as they were.
C4_RejectedLoginKeepsNonces ==
    [][ \A c \in Conns, ev \in ClientEvents :
          (AuthOnMessage(c, ev) /\ ev.type = "AUTH_LOGIN" /\ Appends(c, "AUTH_FAILED"))
              => usedTokens' = usedTokens ]_vars

\* C5: once a connection is authenticated, no expiry of a handshake timer
\* writes a failure response to it or closes it.
C5_AuthenticatedIsTerminal ==
    [][ \A c \in Conns :
          ( /\ authenticated[c]
            /\ \/ AuthTimerFire(c)
               \/ \E d \in graceTimers[c] : GraceTimerFire(c, d) )
              => (sent'[c] = sent[c] /\ readyState'[c] = readyState[c]) ]_vars

\* C6: a connection that has been sent AUTH_FAILED is not sent a success
\* response afterwards and is not promoted to the registry.
C6_FailedIsFinal ==
    \A c \in Conns :
        HasFrame(c, "AUTH_FAILED") =>
            /\ ~HasFrame(c, "AUTH_SUCCESS")
            /\ \A u \in Wallets : connections[u] # c

\* The server answered the expiry of the authentication deadline of c: the
\* timeout failure was written, the entry is gone and the close was started.
TimedOut(c) ==
    /\ c \notin pendingConnections
    /\ \E i \in 1..Len(sent[c]) : sent[c][i] = << "AUTH_FAILED", "Authentication timeout" >>
    /\ serverClose[c] = AuthFailedClose
    /\ readyState[c] \in {"CLOSING", "CLOSED"}

\* A handshake that left the pending set without a login was closed by its peer
\* or timed out by the server.
IdleLeavesByTimeout ==
    \A c \in Conns :
        (HasFrame(c, "AUTH_CHALLENGE") /\ c \notin pendingConnections /\ ~loginSeen[c])
            => (readyState[c] = "CLOSED" \/ TimedOut(c))

\* C7: a pending handshake that neither submits AUTH_LOGIN nor closes is
\* answered with the timeout failure and force-closed by the server, and no
\* pending entry remains for it: from some instant on every pending entry has
\* submitted a login, and an entry that left without one was closed by the peer
\* or timed out.
C7_IdleHandshakeTimesOut ==
    /\ <>[](\A c \in pendingConnections : loginSeen[c])
    /\ []IdleLeavesByTimeout

\* A handshake without any login was timed out at its deadline plus the grace delay.
C7_Witness ==
    \E c \in Conns :
        /\ TimedOut(c)
        /\ ~loginSeen[c]
        /\ now = startTime[c] + authTimeout + GraceDelay

\* A pending entry is never authenticated, and its armed deadline is the instant
\* of the connection plus the authentication timeout.
DeadlineInv ==
    \A c \in pendingConnections :
        /\ ~authenticated[c]
        /\ authTimer[c] # Off => authTimer[c] = startTime[c] + authTimeout

\* A frame other than AUTH_LOGIN received on a pending connection is answered
\* with AUTH_REQUIRED and changes nothing of the handshake or the registry.
NonLoginStep ==
    \A c \in Conns, ev \in ClientEvents :
        (AuthOnMessage(c, ev) /\ ev.type # "AUTH_LOGIN" /\ c \in pendingConnections) =>
            /\ sent' = [sent EXCEPT ![c] =
                          Append(@, << "AUTH_REQUIRED", "Authentication required" >>)]
            /\ UNCHANGED << authTimer, startTime, graceTimers, logins, pendingConnections,
                            authenticated, usedTokens, connections, userId, readyState >>

\* The authentication timer runs at the instant of the connection plus the timeout.
DeadlineStep ==
    \A c \in Conns : AuthTimerFire(c) => now = startTime[c] + authTimeout

\* C8: while a connection is pending, an event other than AUTH_LOGIN is
\* answered with the 'Authentication required' error, runs no handler and
\* leaves the authentication deadline at 10 s after the connection.
C8_NonLoginWhilePending ==
    []DeadlineInv /\ [][NonLoginStep /\ DeadlineStep]_vars

\* A pending connection was just answered AUTH_REQUIRED and its timer is still
\* armed for the original deadline.
C8_Witness ==
    \E c \in pendingConnections :
        /\ Len(sent[c]) >= 2
        /\ sent[c][Len(sent[c])] = << "AUTH_REQUIRED", "Authentication required" >>
        /\ authTimer[c] = startTime[c] + authTimeout

\* The suspended login l of a validated credential ends in this step.
LoginEnds(l) ==
    \E dbOk \in BOOLEAN :
        \/ LoginFindDone(l, dbOk) /\ (~dbOk \/ l.walletAddress \in users)
        \/ LoginCreateDone(l, dbOk)

\* The login l ends with the user row found or created.
LoginEndsWithUser(l) ==
    \/ LoginFindDone(l, TRUE) /\ l.walletAddress \in users
    \/ LoginCreateDone(l, TRUE) /\ l.walletAddress \notin users

\* What a successful handshake of l.conn leaves behind.
Promoted(l) ==
    /\ Appends(l.conn, "AUTH_SUCCESS")
    /\ sent'[l.conn][Len(sent'[l.conn])] = << "AUTH_SUCCESS", l.walletAddress >>
    /\ l.conn \notin pendingConnections'
    /\ connections'[l.walletAddress] = l.conn

ClosedInv ==
    \A c \in Conns : readyState[c] = "CLOSED" => c \notin pendingConnections

\* The close of a transport removes its pending entry and writes nothing, and
\* nothing is written to a closed transport nor is its entry created again.
ClosedStep ==
    \A c \in Conns :
        /\ (readyState[c] # "CLOSED" /\ readyState'[c] = "CLOSED") =>
               (c \notin pendingConnections' /\ sent' = sent)
        /\ readyState[c] = "CLOSED" =>
               (sent'[c] = sent[c] /\ c \notin pendingConnections' /\ readyState'[c] = "CLOSED")

\* C10: when the transport of a pending connection closes, its pending entry
\* is removed and nothing further is written to it: no later timer expiry
\* sends to it or creates its entry again.
C10_CloseWhilePending ==
    []ClosedInv /\ [][ClosedStep]_vars

\* The peer closed a pending connection that had only received the challenge, and
\* the authentication timer has run since.
C10_Witness ==
    \E c \in Conns :
        /\ readyState[c] = "CLOSED"
        /\ serverClose[c] = << 0, "" >>
        /\ sent[c] = << << "AUTH_CHALLENGE", "" >> >>
        /\ authTimer[c] = Off
        /\ ~authenticated[c]
        /\ now >= startTime[c] + authTimeout

\* C11: no login is accepted unless the credential verifies under the signing
\* secret of the server, is unexpired, and embeds the wallet address asserted
\* with it: every session row was issued to such a login.
C11_AcceptedLoginsVerify ==
    \A s \in sessions :
        /\ s.payload.jwtToken.signed
        /\ now < s.payload.jwtToken.exp
        /\ s.payload.jwtToken.walletAddress = s.payload.walletAddress

\* A call of the validator that presents a credential no earlier call presented.
FirstPresentation(j) ==
    \A i \in 1..(j - 1) : attempts[i].payload.jwtToken # attempts[j].payload.jwtToken

\* C12: a credential is redeemed at most once while it is valid: the record of a
\* validated nonce is still there as long as the credential is unexpired, and no
\* credential is accepted by two calls of the validator.
C12_RedeemedOnceWhileValid ==
    /\ \A j \in DOMAIN attempts :
          (attempts[j].isValid /\ now < attempts[j].payload.jwtToken.exp)
              => usedTokens[attempts[j].payload.jwtToken.nonce] # Off
    /\ \A i, j \in DOMAIN attempts :
          (i < j /\ attempts[i].isValid /\ attempts[j].isValid)
              => attempts[i].payload.jwtToken # attempts[j].payload.jwtToken

\* C13: a signed, unexpired credential that embeds the asserted wallet address and
\* is presented for the first time is accepted, whatever was validated before it.
C13_FirstPresentationAccepted ==
    \A j \in DOMAIN attempts :
        LET a == attempts[j] IN
        ( /\ a.payload.jwtToken.signed
          /\ a.time < a.payload.jwtToken.exp
          /\ a.payload.jwtToken.walletAddress = a.payload.walletAddress
          /\ FirstPresentation(j) )
            => a.isValid

\* The heartbeat frame of a client.
PingEvent ==
    [type |-> "PING", payload |-> [walletAddress |-> NoUser, jwtToken |-> NoToken]]

\* A PING received on a connection that was sent AUTH_SUCCESS is answered with PONG.
PingAfterSuccessStep ==
    \A c \in Conns, throws \in BOOLEAN :
        ( /\ HasFrame(c, "AUTH_SUCCESS")
          /\ AuthOnMessage(c, PingEvent) \/ MainOnMessage(c, "PING", throws) )
            => sent' = [sent EXCEPT ![c] = Append(@, << "PONG", "" >>)]

\* No AUTH_REQUIRED follows AUTH_SUCCESS among the frames written to a connection.
NoChallengeAfterSuccess ==
    \A c \in Conns : \A i, j \in 1..Len(sent[c]) :
        (i < j /\ FrameIs(c, i, "AUTH_SUCCESS")) => ~FrameIs(c, j, "AUTH_REQUIRED")

\* C14: once AUTH_SUCCESS was sent on a connection, every PING the client sends
\* on it is answered with PONG and the client is never sent AUTH_REQUIRED on it.
C14_PingAfterSuccess ==
    []NoChallengeAfterSuccess /\ [][PingAfterSuccessStep]_vars

\* An event other than the heartbeat and the login itself, received by the
\* session server on a connection without a userId, is answered with the
\* 'Authentication required' error and runs no handler.
AuthRequiredStep ==
    \A c \in Conns, ev \in LegacyEvents, throws \in BOOLEAN :
        ( /\ LegacyOnMessage(c, ev, throws)
          /\ userId[c] = NoUser
          /\ ev.type \notin {"PING", "AUTH_LOGIN"} )
            => /\ sent' = [sent EXCEPT ![c] =
                             Append(@, << "ERROR", "Authentication required" >>)]
               /\ UNCHANGED thrown

\* C15: every auth-required event received on a connection that has no resolved
\* identity is answered with the 'authentication required' error to the sender
\* and invokes no handler.
C15_AuthRequiredAnswered ==
    [][AuthRequiredStep]_vars

\* An event of a type the protocol does not have, received by the session server
\* on a connection with a userId, is answered with one 'unknown event' error and
\* leaves the connection open and registered.
UnknownEventStep ==
    \A c \in Conns, ev \in LegacyEvents, throws \in BOOLEAN :
        ( /\ LegacyOnMessage(c, ev, throws)
          /\ userId[c] # NoUser
          /\ ev.type = "NOPE" )
            => /\ sent' = [sent EXCEPT ![c] = Append(@, << "ERROR", "Unknown event type" >>)]
               /\ UNCHANGED << readyState, connections >>

\* C16: an event with an unknown type received on an authenticated connection is
\* answered with exactly one 'unknown event' error envelope, and the connection
\* stays open and registered.
C16_UnknownEventAnswered ==
    [][UnknownEventStep]_vars

\* A frame that reports a failure to the client.
ErrorEnvelope(frame) ==
    frame[1] \in {"ERROR", "AUTH_ME_RESPONSE"} /\ frame[2] # "success"

\* A step in which a handler of connection c threw writes one error envelope to
\* c and nothing to any other connection, and closes nothing.
HandlerThrowStep ==
    \A c \in Conns :
        thrown'[c] > thrown[c] =>
            /\ Len(sent'[c]) = Len(sent[c]) + 1
            /\ SubSeq(sent'[c], 1, Len(sent[c])) = sent[c]
            /\ ErrorEnvelope(sent'[c][Len(sent'[c])])
            /\ \A d \in Conns \ {c} : sent'[d] = sent[d]
            /\ UNCHANGED << readyState, connections >>

\* C17: for every inbound event whose handler throws, exactly one error envelope
\* is sent to the originating connection and none to any other, and the
\* connection stays open.
C17_HandlerThrowAnswered ==
    [][HandlerThrowStep]_vars

\* The identities a broadcast is for: members according to the rows read, other
\* than the excluded identity, whose registered connection is open.
Targets(b) ==
    {u \in Wallets : /\ u \in b.members
                     /\ u # b.exclude
                     /\ connections[u] # None
                     /\ readyState[connections[u]] = "OPEN"}

\* The membership a call works with is the content of the source of record at
\* its read.
MembershipReadStep ==
    \A exclude \in Excludes :
        BroadcastRead(exclude) => broadcast'.members = channelMembers

\* The loop calls ws.send for the targets and for nobody else, and only
\* connections of targets get a frame.
FanoutStep ==
    \A fails \in SUBSET Wallets :
        BroadcastLoop(TRUE, fails) =>
            /\ reports'.attempted = Targets(broadcast)
            /\ \A u \in Targets(broadcast) \ fails :
                   sent'[connections[u]] =
                       Append(sent[connections[u]], << "MESSAGE_RECEIVED", reports'.calls >>)
            /\ \A c \in Conns :
                   sent'[c] # sent[c] => \E u \in Targets(broadcast) : connections[u] = c

\* C18: one broadcast call writes the event to exactly the identities that are
\* members at the time of the membership read, are not the excluded identity and
\* have an open registered connection; no non-member and no excluded identity
\* receives it.
C18_BroadcastTargets ==
    [][MembershipReadStep /\ FanoutStep]_vars

\* A broadcast for all three members that excluded the connected sender U1 wrote
\* to U2 only, U3 being offline.
C18_Witness ==
    /\ reports.calls > 0
    /\ reports.read
    /\ reports.members = Wallets
    /\ reports.exclude = "U1"
    /\ reports.open = {"U1", "U2"}
    /\ reports.attempted = {"U2"}
    /\ \E c \in Conns : userId[c] = "U2" /\ HasFrame(c, "MESSAGE_RECEIVED")

\* A recipient whose write fails is closed, and the other recipients still get
\* the event.
WriteFailureStep ==
    \A fails \in SUBSET Wallets :
        BroadcastLoop(TRUE, fails) =>
            /\ \A u \in fails : readyState'[connections[u]] \in {"CLOSING", "CLOSED"}
            /\ \A u \in Targets(broadcast) \ fails :
                   sent'[connections[u]] =
                       Append(sent[connections[u]], << "MESSAGE_RECEIVED", reports'.calls >>)

\* C19: when a write to one recipient fails during a broadcast, the connection of
\* that recipient is closed and the loop continues, so that every remaining
\* member with an open connection still receives the event.
C19_FailedWriteCloses ==
    [][WriteFailureStep]_vars

\* C20: each broadcast returns a delivery report: attempted is the number of
\* non-excluded members, delivered the number of successful writes, membership
\* the size of the member set.
C20_DeliveryReport ==
    (reports.calls > 0 /\ reports.read) =>
        reports.returned = << Cardinality(reports.members \ {reports.exclude}),
                              Cardinality(reports.delivered),
                              Cardinality(reports.members) >>

\* ---- unread counts
\* The watermark of the call recorded in unreadCalc: the latest read
\* acknowledgment of the identity in the conversation, else its last-seen time,
\* else the epoch.
Watermark ==
    LET acks == {r.readAt : r \in {x \in unreadCalc.receipts :
                                      /\ x.userId = unreadCalc.userId
                                      /\ x.channelId = unreadCalc.channelId}} IN
    IF acks # {} THEN CHOOSE a \in acks : \A b \in acks : b <= a
    ELSE IF unreadCalc.lastSeen # Off THEN unreadCalc.lastSeen
    ELSE 0

\* The messages of the conversation that are not soft-deleted, not the
\* identity's own, and timestamped strictly after w.
UnreadAfter(w) ==
    {m \in unreadCalc.messages :
        /\ m.channelId = unreadCalc.channelId
        /\ ~m.deleted
        /\ m.authorId # unreadCalc.userId
        /\ m.sentAt > w}

SendStep(u) ==
    handleSendMessage(u)

\* The step is a run of handleMarkAsRead for the user u.
ReadStep(u) ==
    \E m \in {NoMessage} \cup {x.id : x \in dbMessages} : handleMarkAsRead(u, m)

\* C21: the author of a new message gets neither the MESSAGE_RECEIVED nor the
\* UNREAD_COUNT_UPDATE the message triggers, and every other connected member
\* gets both.
C21_AuthorExcluded ==
    [][\A u \in NotifyUsers :
          SendStep(u) =>
              /\ \A f \in pushed' : f.to # u
              /\ \A m \in (channelMembers' \cap online') \ {u} :
                    \A e \in {"MESSAGE_RECEIVED", "UNREAD_COUNT_UPDATE"} :
                        \E f \in pushed' : f.to = m /\ f.event = e]_vars

\* C22: an event for the channel from a sender that is not a member of it is
\* answered with an error frame to the sender, reaches no other connection, and
\* creates no membership row, message or read receipt.
C22_NonMemberRefused ==
    [][\A u \in NotifyUsers :
          ((SendStep(u) \/ ReadStep(u)) /\ u \notin channelMembers) =>
              /\ \E f \in pushed' : f.to = u /\ f.event = "ERROR"
              /\ \A f \in pushed' : f.to = u
              /\ UNCHANGED << channelMembers, dbMessages, dbReceipts >>]_vars

\* The last-read watermark of u in the source of record: its latest read
\* acknowledgment in the channel, else its last-seen time, else the epoch.
WatermarkOf(u) ==
    LET acks == {r.readAt : r \in {x \in dbReceipts : x.userId = u}} IN
    IF acks # {} THEN CHOOSE a \in acks : \A b \in acks : b <= a
    ELSE IF userLastSeen[u] # Off THEN userLastSeen[u]
    ELSE 0

\* The unread count of u recomputed from the source of record.
Recount(u) ==
    IF u \notin channelMembers THEN 0
    ELSE Cardinality({m \in dbMessages :
                        ~m.deleted /\ m.authorId # u /\ m.sentAt > WatermarkOf(u)})

\* C28: once a new message has been handled, no member other than the author
\* has a cached total or a cached channel counter that differs from the
\* recomputed count, and the counts pushed to the connected members are the
\* recomputed counts.
C28_CountersInvalidated ==
    [][\A u \in NotifyUsers :
          SendStep(u) =>
              \A m \in channelMembers' \ {u} :
                  /\ countCache'[<<"total", m>>] \in {Off, Recount(m)'}
                  /\ countCache'[<<"channel", m>>] \in {Off, Recount(m)'}
                  /\ \A f \in pushed' :
                        (f.to = m /\ f.event = "UNREAD_COUNT_UPDATE") =>
                            /\ f.channelUnreadCount = Recount(m)'
                            /\ f.totalUnreadCount = Recount(m)']_vars

\* C29: when a member with unread messages marks a message of the channel as
\* read, its unread count recomputes to 0, and one update carrying 0 goes to
\* its own connection and nothing goes to any other connection.
C29_ReadPushesZero ==
    [][\A u \in NotifyUsers :
          \A id \in {x.id : x \in dbMessages} :
              (handleMarkAsRead(u, id) /\ u \in channelMembers /\ Recount(u) > 0) =>
                  /\ Recount(u)' = 0
                  /\ \E f \in pushed' :
                        /\ f.to = u
                        /\ f.event = "UNREAD_COUNT_UPDATE"
                        /\ f.channelUnreadCount = 0
                  /\ \A f \in pushed' : f.to = u /\ f.channelUnreadCount = 0]_vars

\* ---- channel lists
\* The list cached for u, as the next get reads it.
CachedList(u) ==
    cacheGet(Store, getUserChannelsKey(u))

\* C23: when the cached list of a user holds the channel and the user has no
\* membership row for it, the next fetch answers with a list without the
\* channel and leaves no cached list of the user that holds it, with the
\* external store connected or not.
C23_StaleListCorrected ==
    [][\A u \in ListUsers :
          (handleFetchChannels(u) /\ CachedList(u) # Miss /\ "C1" \in CachedList(u)
               /\ u \notin channelMembers) =>
              /\ "C1" \notin lastList'.channels
              /\ "C1" \notin CachedList(u)']_vars

\* C24: a validation that finds the ids of the cache equal to the ids of the
\* database leaves every entry of the cache as it was.
C24_ValidationKeepsCache ==
    [][\A u \in ListUsers :
          (ValidateCache(u) /\ cachedChannels(Store, u) = dbChannels(u)) =>
              /\ lastList'.valid
              /\ UNCHANGED << redisStore, memoryCache >>]_vars

\* A validation has found the cached lists of a member of the channel, held by
\* the Map, in agreement with the database.
C24_Witness ==
    /\ lastList.op = "validate"
    /\ lastList.valid
    /\ ~isConnected
    /\ memoryCache[PublicKey] = publicChannels
    /\ memoryCache[getUserChannelsKey(lastList.userId)] = {"C1"}

\* C25: when a handler has changed the membership of a user, the cache holds
\* no list for that user from before the change.
C25_MembershipInvalidates ==
    [][\A u \in Movers :
          MembershipChange(u) =>
              (CachedList(u)' = Miss \/ CachedList(u)' = userChannels(u)')]_vars

\* ---- cache operations
\* What a read of key returns once the step is taken.
ReadOf(key) ==
    lastCall'.returned[IF lastCall'.op = "mget" /\ key = "k2" THEN 2 ELSE 1]

\* The step reads key through the Map, the external store not being connected.
FallbackRead(key) ==
    /\ ~isConnected
    /\ \/ get(key, FALSE) \/ get(key, TRUE)
       \/ mget(<<"k1", "k2">>, FALSE) \/ mget(<<"k1", "k2">>, TRUE)

\* C26: every cache operation returns a value, a miss, true or false in every
\* mode; and while the external store is not connected, a read of a key up to
\* the expiry of its last set returns the value of that set, and a read after
\* the expiry, or of a key that is not set, returns a miss.
C26_CacheOperationsReturn ==
    [][/\ lastCall'.op \in {"get", "mget"} =>
              \A i \in 1..Len(lastCall'.returned) :
                  lastCall'.returned[i] \in CacheValues \cup {Null}
       /\ lastCall'.op \in {"set", "del", "mset"} =>
              lastCall'.returned \in {<<"true">>, <<"false">>}
       /\ \A key \in CacheKeys :
              FallbackRead(key) =>
                  ReadOf(key) = IF lastSet[key] # NoEntry /\ cacheTime <= lastSet[key].expiry
                                THEN lastSet[key].value
                                ELSE Null]_vars

\* Without the external store, a get has returned a value at the expiry of its
\* set while the entry of the other key had run out.
C26_Witness ==
    /\ ~isConnected
    /\ lastCall.op = "mget"
    /\ lastCall.mode = "fallback"
    /\ lastCall.returned = <<"a", Null>>
    /\ lastSet["k1"] = [value |-> "a", expiry |-> cacheTime]
    /\ lastSet["k2"] # NoEntry
    /\ lastSet["k2"].expiry < cacheTime

\* ---- idle connections
\* The step closes the connection of the Gateway as dead.
GatewayEvicts ==
    gateway.state = "open" /\ gateway'.state = "closed"

MaxInbound == 3

OrderEvents == {"SEND_MESSAGE", "START_TYPING"}

\* What a handler does each time the promise it awaits resolves, up to its next
\* await. handleSendMessage awaits channelMember.findUnique, message.create,
\* notificationService.handleNewMessage and the findMany of broadcastToChannel;
\* handleStartTyping awaits the findMany of broadcastToChannel only.
program(type) ==
    IF type = "SEND_MESSAGE"
    THEN << "", "write", "", "broadcast" >>
    ELSE << "broadcast" >>

\* ws.on('message'): the listener is invoked and runs to its first await.
OnMessage(type) ==
    /\ Len(handlers) < MaxInbound
    /\ handlers' = Append(handlers, [type |-> type, resolved |-> 0])
    /\ UNCHANGED effects
    /\ UNCHANGED besidesOrder

\* The promise handler i awaits resolves; the handler runs to its next await.
Resume(i) ==
    /\ i \in 1..Len(handlers)
    /\ handlers[i].resolved < Len(program(handlers[i].type))
    /\ LET effect == program(handlers[i].type)[handlers[i].resolved + 1]
       IN  /\ handlers' = [handlers EXCEPT ![i].resolved = @ + 1]
           /\ effects' = IF effect = "" THEN effects ELSE Append(effects, << i, effect >>)
    /\ UNCHANGED besidesOrder

NextOrder ==
    \/ \E type \in OrderEvents : OnMessage(type)
    \/ \E i \in 1..MaxInbound : Resume(i)

SpecOrder == Init /\ [][NextOrder]_vars

\* C31: inbound messages of one connection are processed in arrival order: every
\* effect (write or broadcast) of an earlier event happens before any effect of
\* a later event of the same connection.
C31_ArrivalOrder ==
    \A j, k \in 1..Len(effects) : j < k => effects[j][1] <= effects[k][1]

\* ------------------------------------------------- presence (first server)
\* The main endpoint with the presence column: a connection with a valid unused
\* token reaches prisma.user.findFirst (MainFindDone, MainCreateDone), then
\* setupUserConnection, whose await of updateUserPresence is position "setup";
\* the close listener deletes the registry entry and awaits updateUserPresence,
\* position "offline". The database executes the updates that are in flight in
\* any order, and updateUserPresence swallows a failed update.
PresenceUsers == {"U1", "U2"}

\* What these steps leave alone.
besidesRegistry == << now, globalUsedTokens, users, clientEvents, validations, hsVars,
                      legacyVars, extVars, dispVars, bcVars, calcVars, notifyVars,
                      listVars, storeVars, beatVars, restOfPresence >>

\* updateUserPresence: prisma.user.update of status, or the swallowed error.
updateUserPresence(u, status, dbOk) ==
    IF dbOk /\ u # NoUser THEN [presence EXCEPT ![u] = status] ELSE presence

\* wss.on('connection'): the token of the URL is valid and unused.
PresenceAccept(c, u) ==
    /\ readyState[c] = "NONE"
    /\ \A d \in Conns : d < c => readyState[d] # "NONE"
    /\ readyState' = [readyState EXCEPT ![c] = "OPEN"]
    /\ mainLogin' = [mainLogin EXCEPT ![c] = u]
    /\ pc' = [pc EXCEPT ![c] = "mainFind"]
    /\ UNCHANGED << serverClose, sent, presence >>
    /\ UNCHANGED regVars
    /\ UNCHANGED besidesRegistry

\* The update of setupUserConnection is executed and its await returns: the
\* status frame is sent and the listeners of the connection are attached.
PresenceOnlineDone(c, dbOk) ==
    /\ pc[c] = "setup"
    /\ presence' = updateUserPresence(userId[c], "online", dbOk)
    /\ sent' = Send(sent, c, << "USER_STATUS_CHANGED", "online" >>)
    /\ pc' = [pc EXCEPT ![c] = "ready"]
    /\ UNCHANGED << readyState, serverClose, mainLogin >>
    /\ UNCHANGED regVars
    /\ UNCHANGED besidesRegistry

\* The 'close' event of a transport; the close listener, once attached, deletes
\* the registry entry of its userId and calls updateUserPresence.
PresenceClose(c) ==
    /\ readyState[c] \in {"OPEN", "CLOSING"}
    /\ readyState' = [readyState EXCEPT ![c] = "CLOSED"]
    /\ onCloseRegistry(c)
    /\ pc' = [pc EXCEPT ![c] = IF @ = "ready" THEN "offline" ELSE @]
    /\ UNCHANGED << serverClose, mainLogin, sent, presence, userId, replacedBy >>
    /\ UNCHANGED besidesRegistry

\* The update of the close listener is executed and its await returns.
PresenceOfflineDone(c, dbOk) ==
    /\ pc[c] = "offline"
    /\ presence' = updateUserPresence(userId[c], "offline", dbOk)
    /\ pc' = [pc EXCEPT ![c] = "done"]
    /\ UNCHANGED << readyState, serverClose, mainLogin, sent >>
    /\ UNCHANGED regVars
    /\ UNCHANGED besidesRegistry

NextPresence ==
    \/ \E c \in Conns, u \in PresenceUsers : PresenceAccept(c, u)
    \/ \E c \in Conns, dbOk \in BOOLEAN : MainFindDone(c, dbOk)
    \/ \E c \in Conns, dbOk \in BOOLEAN : MainCreateDone(c, dbOk)
    \/ \E c \in Conns, dbOk \in BOOLEAN : PresenceOnlineDone(c, dbOk)
    \/ \E c \in Conns : PresenceClose(c)
    \/ \E c \in Conns, dbOk \in BOOLEAN : PresenceOfflineDone(c, dbOk)

SpecPresence == Init /\ [][NextPresence]_vars

\* No connect or disconnect handler is suspended.
HandlersComplete ==
    \A c \in Conns : pc[c] \notin {"mainFind", "mainCreate", "setup", "offline"}

\* C32: once every connect and disconnect handler that has started has run to
\* completion, the stored presence of an identity is 'online' exactly when the
\* registry holds a connection for it.
C32_PresenceFollowsRegistry ==
    HandlersComplete =>
        \A u \in Wallets : (presence[u] = "online") <=> (connections[u] # None)

\* ------------------------------------------------------ termination signal
\* The process of one of the servers, its transports and the broadcast a handler
\* may be suspended in, around the signal handlers: process.on('SIGTERM'/'SIGINT')
\* of the first server, gracefulShutdown of the session server, and
\* Gateway.shutdown, which ServerGateway.shutdown calls.
ShuttingDown == "Server shutting down"

\* server.listen of one of the servers.
Listen(s) ==
    /\ proc.server = "none"
    /\ proc' = [proc EXCEPT !.server = s, !.listening = TRUE]
    /\ UNCHANGED << sockets, haltLog >>
    /\ UNCHANGED besidesHalt

\* A transport is accepted; the registry holds it once its setup has run. The
\* Gateway records every transport it accepts.
SocketOpen(c, registered) ==
    /\ proc.listening /\ ~proc.exited
    /\ sockets[c].state = "none"
    /\ sockets' = [sockets EXCEPT ![c] =
                      [state |-> "open", reason |-> "",
                       registered |-> registered \/ proc.server = "gateway"]]
    /\ UNCHANGED << proc, haltLog >>
    /\ UNCHANGED besidesHalt

\* The 'close' event of a transport: the peer closed it, or the closing
\* handshake the server started has completed.
SocketClosed(c) ==
    /\ ~proc.exited
    /\ sockets[c].state \in {"open", "closing"}
    /\ sockets' = [sockets EXCEPT ![c].state = "closed"]
    /\ UNCHANGED << proc, haltLog >>
    /\ UNCHANGED besidesHalt

\* A handler enters broadcastToChannel and is suspended on its query.
FanoutStart ==
    /\ proc.server # "none" /\ ~proc.exited
    /\ proc.fanout \in {"none", "finished"}
    /\ \E c \in HaltConns : sockets[c].state = "open"
    /\ proc' = [proc EXCEPT !.fanout = "running"]
    /\ UNCHANGED << sockets, haltLog >>
    /\ UNCHANGED besidesHalt

\* The broadcast has written to its last recipient.
FanoutFinish ==
    /\ ~proc.exited
    /\ proc.fanout = "running"
    /\ proc' = [proc EXCEPT !.fanout = "finished"]
    /\ UNCHANGED << sockets, haltLog >>
    /\ UNCHANGED besidesHalt

\* ws.close(1000, reason) on every transport of the registry.
closeRegistered(reason) ==
    [c \in HaltConns |->
        IF sockets[c].registered /\ sockets[c].state = "open"
        THEN [sockets[c] EXCEPT !.state = "closing", !.reason = reason]
        ELSE sockets[c]]

\* process.exit: what is left of the process is dropped.
processExit ==
    [c \in HaltConns |->
        IF sockets[c].state \in {"open", "closing"}
        THEN [sockets[c] EXCEPT !.state = "reset"]
        ELSE sockets[c]]

\* process.on('SIGTERM') and process.on('SIGINT') of the first server:
\* connections.forEach(ws.close), then server.close(callback).
SignalFirst ==
    /\ proc.server = "first" /\ ~proc.signalled
    /\ sockets' = closeRegistered(ShuttingDown)
    /\ proc' = [proc EXCEPT !.signalled = TRUE, !.listening = FALSE]
    /\ haltLog' = haltLog \o << "closeConnections", "stopAccepting" >>
    /\ UNCHANGED besidesHalt

\* The callback of server.close of the first server, called when the last
\* transport of the HTTP server has ended: process.exit(0).
ServerClosed ==
    /\ proc.server = "first" /\ proc.signalled /\ ~proc.exited
    /\ \A c \in HaltConns : sockets[c].state \notin {"open", "closing"}
    /\ proc' = [proc EXCEPT !.exited = TRUE,
                            !.fanout = IF @ = "running" THEN "cut" ELSE @]
    /\ haltLog' = Append(haltLog, "exit")
    /\ UNCHANGED sockets
    /\ UNCHANGED besidesHalt

\* gracefulShutdown of the session server up to its await: wss.close(),
\* server.close(), prisma.$disconnect().
gracefulShutdown ==
    /\ proc.server = "session" /\ ~proc.signalled
    /\ proc' = [proc EXCEPT !.signalled = TRUE, !.listening = FALSE]
    /\ haltLog' = Append(haltLog, "stopAccepting")
    /\ UNCHANGED sockets
    /\ UNCHANGED besidesHalt

\* prisma.$disconnect() returns or throws: process.exit(0) or process.exit(1).
DisconnectDone(dbOk) ==
    /\ proc.server = "session" /\ proc.signalled /\ ~proc.exited
    /\ proc' = [proc EXCEPT !.exited = TRUE,
                            !.released = IF dbOk THEN {"database"} ELSE {},
                            !.fanout = IF @ = "running" THEN "cut" ELSE @]
    /\ sockets' = processExit
    /\ haltLog' = haltLog \o (IF dbOk THEN << "release" >> ELSE << >>) \o << "exit" >>
    /\ UNCHANGED besidesHalt

\* Gateway.shutdown: the two intervals are cleared and every OPEN transport of
\* Gateway.connections is closed.
GatewayShutdown ==
    /\ proc.server = "gateway" /\ ~proc.signalled
    /\ sockets' = closeRegistered("Server shutdown")
    /\ proc' = [proc EXCEPT !.signalled = TRUE]
    /\ haltLog' = Append(haltLog, "closeConnections")
    /\ UNCHANGED besidesHalt

NextHalt ==
    \/ \E s \in HaltServers : Listen(s)
    \/ \E c \in HaltConns, registered \in BOOLEAN : SocketOpen(c, registered)
    \/ \E c \in HaltConns : SocketClosed(c)
    \/ FanoutStart
    \/ FanoutFinish
    \/ SignalFirst
    \/ ServerClosed
    \/ gracefulShutdown
    \/ \E dbOk \in BOOLEAN : DisconnectDone(dbOk)
    \/ GatewayShutdown

SpecHalt == Init /\ [][NextHalt]_vars

\* C33: on a termination signal the server stops accepting connections, closes
\* every live connection with the 'server shutting down' reason, lets the
\* broadcasts in flight finish, and only then releases the database and the
\* cache connections and exits: after the signal the server does not listen, and
\* a process that has exited performed the four steps in this order, dropped no
\* transport, cut no broadcast and released both stores.
C33_ShutdownInOrder ==
    /\ proc.signalled => ~proc.listening
    /\ proc.exited =>
        /\ haltLog = << "stopAccepting", "closeConnections", "drain", "release", "exit" >>
        /\ \A c \in HaltConns :
              /\ sockets[c].state # "reset"
              /\ sockets[c].reason \in {"", ShuttingDown}
        /\ proc.fanout # "cut"
        /\ proc.released = {"database", "cache"}

\* ------------------------------------------------------------------ codec
\* JavaScript values are pairs << type, value >>; an object is a function from
\* its keys. The values of the wire are those of MessagePack as msgpack-lite
\* writes them: undefined and null are both written as nil, and nil is read as
\* null; a number that is not a 32-bit integer is written as a float64. Times
\* are counted in units of 1024 ms, so that 2^31 ms is 2097152.
Undefined == << "undefined", "" >>
JsNull == << "null", "" >>
Leaves == {<< "string", "a" >>, << "number", "1" >>, JsNull, Undefined}
PayloadKeys == {"channelId", "content"}
Objects == {<< "object", f >> : f \in UNION {[K -> Leaves] : K \in SUBSET PayloadKeys}}
Payloads == Objects \cup {Undefined, JsNull}
CodecEvents == {"MESSAGE_RECEIVED", "TYPING_STARTED"}
CodecStamps == {1, 2097152, 1660000000}
Envelopes == [eventType : CodecEvents, payload : Payloads, timestamp : CodecStamps]

packLeaf(v) ==
    CASE v[1] = "string" -> << "str", v[2] >>
      [] v[1] = "number" -> << "int", v[2] >>
      [] OTHER -> << "nil", "" >>

pack(v) ==
    IF v[1] = "object"
    THEN << "map", [k \in DOMAIN v[2] |-> packLeaf(v[2][k])] >>
    ELSE packLeaf(v)

packNumber(n) ==
    IF n < 2097152 THEN << "int", n >> ELSE << "float64", n >>

unpackLeaf(w) ==
    CASE w[1] = "str" -> << "string", w[2] >>
      [] w[1] = "int" -> << "number", w[2] >>
      [] OTHER -> JsNull

unpack(w) ==
    IF w[1] = "map"
    THEN << "object", [k \in DOMAIN w[2] |-> unpackLeaf(w[2][k])] >>
    ELSE unpackLeaf(w)

\* msgpack.encode([eventType, payload, timestamp]): a binary frame.
encode(envelope) ==
    [format |-> "msgpack",
     body |-> << << "str", envelope.eventType >>, pack(envelope.payload),
                 packNumber(envelope.timestamp) >>]

\* Frames a peer can send: a binary frame with an array of two or three
\* elements or with a single value, a frame with the text of a JSON object
\* (with or without a payload member), and a frame that is neither.
JsonFrames ==
    [format : {"json"}, type : CodecEvents, payload : {Undefined, << "object", << >> >>}]
InboundFrames ==
    {encode(e) : e \in Envelopes}
        \cup {[format |-> "msgpack", body |-> SubSeq(encode(e).body, 1, 2)] : e \in Envelopes}
        \cup {[format |-> "msgpack", body |-> << >>]}
        \cup JsonFrames
        \cup {[format |-> "garbage"]}

Invalid == [error |-> "Invalid message format"]

\* A decoder that stamps every frame with the time it was received.
decode_stampsArrival(data, at) ==
    IF data.format = "msgpack" /\ Len(data.body) >= 2
    THEN [eventType |-> data.body[1][2], payload |-> unpack(data.body[2]),
          timestamp |-> at]
    ELSE Invalid

\* The inbound decoder of ws.on('message'): msgpack.decode and the array test,
\* else JSON.parse with payload = jsonData.payload || jsonData and timestamp =
\* Date.now(), else the error.
decode(data, at) ==
    IF data.format = "msgpack" /\ Len(data.body) >= 2
    THEN [eventType |-> data.body[1][2], payload |-> unpack(data.body[2]),
          timestamp |-> IF Len(data.body) >= 3 THEN data.body[3][2] ELSE Off]
    ELSE IF data.format = "json"
    THEN [eventType |-> data.type,
          payload |-> IF data.payload # Undefined
                      THEN data.payload
                      ELSE << "object", [k \in {"type"} |-> << "string", data.type >>] >>,
          timestamp |-> at]
    ELSE Invalid

\* The server encodes an envelope and the inbound decoder reads the frame.
Transmit(envelope, at) ==
    /\ codec' = [op |-> "roundtrip", sent |-> envelope, wire |-> encode(envelope),
                 received |-> decode(encode(envelope), at)]
    /\ UNCHANGED besidesCodec

\* The inbound decoder reads a frame of a peer.
Receive(data, at) ==
    /\ codec' = [op |-> "inbound", sent |-> << >>, wire |-> data,
                 received |-> decode(data, at)]
    /\ UNCHANGED besidesCodec

\* One frame in a behaviour.
NextCodec ==
    /\ codec = NoTrip
    /\ \/ \E envelope \in Envelopes, at \in CodecStamps : Transmit(envelope, at)
       \/ \E data \in InboundFrames, at \in CodecStamps : Receive(data, at)

SpecCodec == Init /\ [][NextCodec]_vars

\* A valid envelope: the payload is a map whose values the wire can carry.
ValidEnvelope(envelope) ==
    /\ envelope.payload[1] = "object"
    /\ \A k \in DOMAIN envelope.payload[2] : envelope.payload[2][k] # Undefined

C35_FirstLoginSucceeds ==
    [][ /\ \A c \in Conns :
              MainCreateDone(c, TRUE) => serverClose'[c] = serverClose[c]
        /\ \A l \in logins :
              LoginCreateDone(l, TRUE) => ~Appends(l.conn, "AUTH_FAILED") ]_vars

\* ------------------------------------------------------- invalidation
\* C36: once an invalidation of a key has returned, no later get of that key
\* returns the value stored before it unless the key was set in between, in
\* whatever mode the calls are served: a get that follows a del of its key that
\* returned true returns a miss.
C36_InvalidatedKeyMisses ==
    [][ \A key \in CacheKeys :
          ( /\ lastCall.op = "del"
            /\ lastCall.keys = <<key>>
            /\ lastCall.returned = <<"true">>
            /\ (get(key, FALSE) \/ get(key, TRUE)) )
              => lastCall'.returned = <<Null>> ]_vars

\* --------------------------------------------------- direct-message channel
\* The handlers that create a membership row, for one channel of type 'dm' that
\* starts with its two members. A handler is suspended at each query; "find" is
\* channelMember.findUnique, "count" the channel.findUnique with _count of
\* handleFetchMessages, "create" channelMember.create.
DmEvents == {"FETCH_MESSAGES", "SEND_MESSAGE", "JOIN_CHANNEL"}

\* The handler of a user that is suspended, if any.
callOf(u) ==
    {call \in dmCalls : call.userId = u}

\* ws.on('message') for one of the events: the handler runs up to the lookup of
\* the membership row.
DmOnMessage(u, type) ==
    /\ callOf(u) = {}
    /\ dmCalls' = dmCalls \cup {[userId |-> u, type |-> type, stage |-> "find"]}
    /\ UNCHANGED dmMembers
    /\ UNCHANGED besidesDm

\* channelMember.findUnique returns: with a row the handler goes on without
\* creating one; without a row handleFetchMessages reads the channel and its
\* member count, the two other handlers create the row.
DmFindDone(call) ==
    /\ call \in dmCalls
    /\ call.stage = "find"
    /\ dmCalls' = (dmCalls \ {call}) \cup
                    (IF call.userId \in dmMembers THEN {}
                     ELSE IF call.type = "FETCH_MESSAGES"
                     THEN {[call EXCEPT !.stage = "count"]}
                     ELSE {[call EXCEPT !.stage = "create"]})
    /\ UNCHANGED dmMembers
    /\ UNCHANGED besidesDm

\* channel.findUnique returns in handleFetchMessages: the handler returns when
\* the channel of type 'dm' has two members or more, else it creates the row.
DmCountDone(call) ==
    /\ call \in dmCalls
    /\ call.stage = "count"
    /\ dmCalls' = (dmCalls \ {call}) \cup
                    (IF Cardinality(dmMembers) >= 2 THEN {}
                     ELSE {[call EXCEPT !.stage = "create"]})
    /\ UNCHANGED dmMembers
    /\ UNCHANGED besidesDm

\* channelMember.create returns, or throws on the unique (channelId, userId).
DmCreateDone(call) ==
    /\ call \in dmCalls
    /\ call.stage = "create"
    /\ dmCalls' = dmCalls \ {call}
    /\ dmMembers' = dmMembers \cup {call.userId}
    /\ UNCHANGED besidesDm

\* handleLeaveChannel: channelMember.deleteMany.
DmLeave(u) ==
    /\ callOf(u) = {}
    /\ u \in dmMembers
    /\ dmMembers' = dmMembers \ {u}
    /\ UNCHANGED dmCalls
    /\ UNCHANGED besidesDm

NextDm ==
    \/ \E u \in Wallets, type \in DmEvents : DmOnMessage(u, type)
    \/ \E call \in dmCalls : DmFindDone(call)
    \/ \E call \in dmCalls : DmCountDone(call)
    \/ \E call \in dmCalls : DmCreateDone(call)
    \/ \E u \in Wallets : DmLeave(u)

SpecDm == Init /\ [][NextDm]_vars

\* C37: a direct-message channel never has more than two members, under any
\* sequence or interleaving of FETCH_MESSAGES, SEND_MESSAGE and JOIN_CHANNEL.
C37_DmHasTwoMembers ==
    Cardinality(dmMembers) <= 2

\* ---------------------------------------------------------------- reactions
\* handleAddReaction and handleRemoveReaction of one user on one message the
\* user has access to. The rows are unique in (messageId, userId, emoji). A
\* handler is suspended at each query: "message" is message.findUnique, "find"
\* the lookup of the reaction, "delete" and "create" the writes.
MaxReactionCalls == 2

Emojis == {"thumb", "heart"}
ReactionEvents == {"ADD_REACTION", "REMOVE_REACTION"}

\* ws.on('message') for a reaction event: the handler runs to its first query.
ReactionOnMessage(slot, type, emoji) ==
    /\ \A call \in reactionCalls : call.slot # slot
    /\ reactionCalls' = reactionCalls \cup
           {[slot |-> slot, type |-> type, emoji |-> emoji, stage |-> "message",
             existing |-> "none"]}
    /\ UNCHANGED reactions
    /\ UNCHANGED besidesReaction

\* message.findUnique returns the message with the membership of the user.
ReactionMessageDone(call) ==
    /\ call \in reactionCalls
    /\ call.stage = "message"
    /\ reactionCalls' = (reactionCalls \ {call}) \cup {[call EXCEPT !.stage = "find"]}
    /\ UNCHANGED reactions
    /\ UNCHANGED besidesReaction

\* The lookup returns. handleAddReaction: messageReaction.findFirst by message
\* and user returns one of the rows, found, or none; the same emoji is toggled
\* off, another emoji is replaced, no row leads to the create.
\* handleRemoveReaction: messageReaction.findUnique by message, user and emoji;
\* without a row the handler returns.
ReactionFindDone(call, found) ==
    /\ call \in reactionCalls
    /\ call.stage = "find"
    /\ IF call.type = "ADD_REACTION"
       THEN /\ found \in (IF reactions = {} THEN {"none"} ELSE reactions)
            /\ reactionCalls' = (reactionCalls \ {call}) \cup
                   {[call EXCEPT !.existing = found,
                                 !.stage = IF found = "none" THEN "create" ELSE "delete"]}
       ELSE /\ found = (IF call.emoji \in reactions THEN call.emoji ELSE "none")
            /\ reactionCalls' = (reactionCalls \ {call}) \cup
                   (IF found = "none" THEN {}
                    ELSE {[call EXCEPT !.existing = found, !.stage = "delete"]})
    /\ UNCHANGED reactions
    /\ UNCHANGED besidesReaction

\* messageReaction.delete of the row that was found returns, or throws when the
\* row is gone; the replacement of another emoji goes on to the create.
ReactionDeleteDone(call) ==
    /\ call \in reactionCalls
    /\ call.stage = "delete"
    /\ IF call.existing \notin reactions
       THEN /\ reactionCalls' = reactionCalls \ {call}
            /\ UNCHANGED reactions
       ELSE /\ reactions' = reactions \ {call.existing}
            /\ reactionCalls' = (reactionCalls \ {call}) \cup
                   (IF call.type = "ADD_REACTION" /\ call.existing # call.emoji
                    THEN {[call EXCEPT !.stage = "create"]}
                    ELSE {})
    /\ UNCHANGED besidesReaction

\* messageReaction.create returns, or throws on the unique key.
ReactionCreateDone(call) ==
    /\ call \in reactionCalls
    /\ call.stage = "create"
    /\ reactionCalls' = reactionCalls \ {call}
    /\ reactions' = reactions \cup {call.emoji}
    /\ UNCHANGED besidesReaction

NextReaction ==
    \/ \E slot \in 1..MaxReactionCalls, type \in ReactionEvents, emoji \in Emojis :
           ReactionOnMessage(slot, type, emoji)
    \/ \E call \in reactionCalls : ReactionMessageDone(call)
    \/ \E call \in reactionCalls, found \in Emojis \cup {"none"} :
           ReactionFindDone(call, found)
    \/ \E call \in reactionCalls : ReactionDeleteDone(call)
    \/ \E call \in reactionCalls : ReactionCreateDone(call)

SpecReaction == Init /\ [][NextReaction]_vars

\* C38: after any sequence or interleaving of ADD_REACTION and REMOVE_REACTION
\* events each (user, message) pair has at most one reaction.
C38_OneReactionPerUser ==
    Cardinality(reactions) <= 1

\* ------------------------------------------------- unread-counts response
\* The sum of the per-conversation counts of a response: channelCounts is an
\* object with one count per channel of the user, {} for a user without one.
SumOfCounts(channelCounts) ==
    IF channelCounts = EmptyCounts THEN 0 ELSE channelCounts

\* C39: in every unread-counts response the total unread count equals the sum
\* of the per-conversation counts of the same response.
C39_TotalIsSum ==
    \A f \in pushed :
        f.event = "UNREAD_COUNTS_RESPONSE" =>
            f.totalUnreadCount = SumOfCounts(f.channelUnreadCount)

\* ------------------------------------------------------------ room invites
\* handleUseRoomInvite and handleJoinRoom of the session server for one active
\* private room (privacy 0) created by U1, with one invite whose code is Code
\* and which does not expire during the run. The room has room for every user
\* (memberCount < maxMembers). A handler is suspended at each query: "room" is
\* room.findUnique, "invite" roomInvite.findFirst, "member" roomMember.findFirst,
\* "count" roomMember.count, "create" roomMember.create, "channel"
\* channelMember.create, "update" roomInvite.update.
InviteUsers == {"U2", "U3"}
Code == "CODE"
InviteCodes == {Code, "none"}
RoomEvents == {"USE_ROOM_INVITE", "JOIN_ROOM"}

roomCallOf(u) ==
    {call \in inviteCalls : call.user = u}

\* The call moved on to the next query, or ended.
roomCallTo(call, stage) ==
    (inviteCalls \ {call}) \cup
        (IF stage = "done" THEN {} ELSE {[call EXCEPT !.stage = stage]})

\* ws.on('message') for a room event of u: without an invite code
\* handleUseRoomInvite answers ROOM_ERROR; else the handler runs to its first
\* query.
RoomOnMessage(u, type, inviteCode) ==
    /\ roomCallOf(u) = {}
    /\ inviteCalls' =
           IF type = "USE_ROOM_INVITE" /\ inviteCode = "none" THEN inviteCalls
           ELSE inviteCalls \cup
                    {[user |-> u, type |-> type, inviteCode |-> inviteCode,
                      stage |-> IF type = "USE_ROOM_INVITE" THEN "invite" ELSE "room"]}
    /\ UNCHANGED << roomMembers, roomInvite, viaInvite >>
    /\ UNCHANGED besidesInvite

\* handleJoinRoom: room.findUnique returns the active room.
RoomFindDone(call) ==
    /\ call \in inviteCalls
    /\ call.stage = "room"
    /\ inviteCalls' = roomCallTo(call, "member")
    /\ UNCHANGED << roomMembers, roomInvite, viaInvite >>
    /\ UNCHANGED besidesInvite

\* roomInvite.findFirst with isUsed: false returns. handleUseRoomInvite goes on
\* to the membership lookup, handleJoinRoom to the count; without a row both
\* answer ROOM_ERROR.
InviteFindDone(call) ==
    /\ call \in inviteCalls
    /\ call.stage = "invite"
    /\ inviteCalls' =
           IF call.inviteCode # Code \/ roomInvite.isUsed THEN roomCallTo(call, "done")
           ELSE IF call.type = "USE_ROOM_INVITE" THEN roomCallTo(call, "member")
           ELSE roomCallTo(call, "count")
    /\ UNCHANGED << roomMembers, roomInvite, viaInvite >>
    /\ UNCHANGED besidesInvite

\* roomMember.findFirst for the user returns: a member is answered ROOM_ERROR.
\* handleUseRoomInvite goes on to the count; handleJoinRoom, the room being
\* private, answers ROOM_ERROR without an invite code and else validates it.
RoomMemberDone(call) ==
    /\ call \in inviteCalls
    /\ call.stage = "member"
    /\ inviteCalls' =
           IF call.user \in roomMembers THEN roomCallTo(call, "done")
           ELSE IF call.type = "USE_ROOM_INVITE" THEN roomCallTo(call, "count")
           ELSE IF call.inviteCode = "none" THEN roomCallTo(call, "done")
           ELSE roomCallTo(call, "invite")
    /\ UNCHANGED << roomMembers, roomInvite, viaInvite >>
    /\ UNCHANGED besidesInvite

\* roomMember.count returns a count below maxMembers.
RoomCountDone(call) ==
    /\ call \in inviteCalls
    /\ call.stage = "count"
    /\ inviteCalls' = roomCallTo(call, "create")
    /\ UNCHANGED << roomMembers, roomInvite, viaInvite >>
    /\ UNCHANGED besidesInvite

\* roomMember.create returns.
RoomCreateDone(call) ==
    /\ call \in inviteCalls
    /\ call.stage = "create"
    /\ roomMembers' = roomMembers \cup {call.user}
    /\ viaInvite' = viaInvite \cup {call.user}
    /\ inviteCalls' = roomCallTo(call, "channel")
    /\ UNCHANGED roomInvite
    /\ UNCHANGED besidesInvite

\* channelMember.create returns: handleJoinRoom answers ROOM_JOINED,
\* handleUseRoomInvite goes on to mark the invite.
RoomChannelDone(call) ==
    /\ call \in inviteCalls
    /\ call.stage = "channel"
    /\ inviteCalls' = roomCallTo(call, IF call.type = "USE_ROOM_INVITE" THEN "update"
                                       ELSE "done")
    /\ UNCHANGED << roomMembers, roomInvite, viaInvite >>
    /\ UNCHANGED besidesInvite

\* handleUseRoomInvite: roomInvite.update marks the invite used by the user,
\* and ROOM_INVITE_USED is answered.
InviteUpdateDone(call) ==
    /\ call \in inviteCalls
    /\ call.stage = "update"
    /\ roomInvite' = [isUsed |-> TRUE, usedBy |-> call.user]
    /\ inviteCalls' = roomCallTo(call, "done")
    /\ UNCHANGED << roomMembers, viaInvite >>
    /\ UNCHANGED besidesInvite

NextInvite ==
    \/ \E u \in InviteUsers, type \in RoomEvents, inviteCode \in InviteCodes :
           RoomOnMessage(u, type, inviteCode)
    \/ \E call \in inviteCalls : RoomFindDone(call)
    \/ \E call \in inviteCalls : InviteFindDone(call)
    \/ \E call \in inviteCalls : RoomMemberDone(call)
    \/ \E call \in inviteCalls : RoomCountDone(call)
    \/ \E call \in inviteCalls : RoomCreateDone(call)
    \/ \E call \in inviteCalls : RoomChannelDone(call)
    \/ \E call \in inviteCalls : InviteUpdateDone(call)

SpecInvite == Init /\ [][NextInvite]_vars

\* C40: a room invite admits at most one user: across any interleaving of
\* USE_ROOM_INVITE and JOIN_ROOM events with the same invite code at most one
\* membership is created through the invite, and once the invite is marked
\* used no further membership is created with it.
C40_InviteAdmitsOne ==
    [][ /\ Cardinality(viaInvite') <= 1
        /\ roomInvite.isUsed => viaInvite' = viaInvite ]_vars

====
